---- MODULE Spec2Model ----
(***************************************************************************)
(* Model of the sleep-mode maintenance pipeline of openclaw-mem0-v2:       *)
(* the `mem0-sleep` command (the per-date loop of the plugin's CLI action) *)
(* and the log-store functions of sleep-mode.ts it drives.                 *)
(*                                                                         *)
(* Date strings are sequences of one-character strings, so that the date   *)
(* pattern test and the localeCompare sort are computed on the characters. *)
(*                                                                         *)
(* Spec is the command.  The functions it rests on are also exercised on   *)
(* their own, on the text of the files: LogSpec (appendToLog and           *)
(* readDailyLog), MarkSpec (markProcessed, getProcessedDates and           *)
(* findUnprocessedLogs), ChunkSpec (chunkForAnalysis) and IdSpec (the      *)
(* identity map).                                                          *)
(***************************************************************************)
EXTENDS Integers, Sequences, FiniteSets, TLC

VARIABLES
    files,             \* <logDir>/<date>.jsonl : date -> [exists, lines]
    processed,         \* <logDir>/.processed : the sequence of its lines
    digests,           \* dates d with a file <digestDir>/<d>.md
    store,             \* memory store: the dates whose messages an add has taken in
    today,             \* current UTC date (new Date().toISOString().split("T")[0])
    digestEnabled,     \* cfg.sleepMode.digestEnabled
    runs,              \* number of mem0-sleep invocations so far
    pc,                \* position of the current invocation
    opts,              \* its options { date?, dryRun? }
    unprocessed,       \* its candidate list (const unprocessed)
    idx,               \* loop position in unprocessed (1-based)
    entries,           \* entries of the date being handled (const entries)
    existingMemories,  \* dedup context fetched before the loop
    trace,             \* history: the store and file operations of this invocation
    start,             \* history: the persistent state when this invocation began
    processedReadOk,   \* history: whether its read of .processed succeeded
    resumeDate,        \* history: << d >> when the previous invocation was a listing run
                       \* (no --date, .processed read) killed while d was its date
    \* the log store on its own (LogSpec)
    logFiles,          \* <logDir>/<date>.jsonl as text: date -> [exists, content]
    appended,          \* history: date -> the entries appendToLog was called with
    tampered,          \* history: the dates whose file another writer has touched
    lastRead,          \* the last readDailyLog call and what it returned
    writes,            \* number of writes to the daily logs so far
    \* the watermark on its own (MarkSpec)
    sentinel,          \* <logDir>/.processed as text: [exists, content]
    found,             \* the last findUnprocessedLogs call and what it returned
    markRun,           \* history: the current streak of markProcessed calls for one date
    marked,            \* history: the dates markProcessed has been called with
    \* chunkForAnalysis on its own (ChunkSpec)
    chunkInput,        \* entries
    maxChunkChars,     \* maxChunkChars
    chunkPos,          \* loop position in entries (1-based)
    currentChunk,      \* let currentChunk
    chunks,            \* const chunks
    chunkPc,           \* "loop" | "flush" | "done"
    \* the identity map on its own (IdSpec)
    idMap,             \* map.identities: sequence of [canonical, aliases]
    idCall,            \* history: the last addAliasToIdentityMap call and its result
    idLoaded,          \* history: whether the map came from loadIdentityMap
    \* resolveUserId on its own (UserIdSpec)
    ctx,               \* the hook or tool context resolveUserId is called with
    userId,            \* the call's result, and what simpleHash returned to it
    \* the capture path on its own (CaptureSpec)
    rawMessages,       \* event.messages of the agent_end event
    cleanCall,         \* the last cleanMessages call and what it returned
    captureLog,        \* the agent_end events so far and what they appended
    \* searchLogs on its own (SearchSpec), on the files of logFiles
    searchCall,        \* the last searchLogs call and what it returned
    \* parseSleepAnalysis on its own (ParseSpec)
    response,          \* the text the LLM answered with
    analysis,          \* the last parseSleepAnalysis call and its outcome
    \* live capture beside the command (LiveSpec)
    stamped,           \* << ts >> of an entry buildLogEntry has built, not yet appended
    captures,          \* number of entries built so far
    late,              \* history: dates appended to after a run read or marked them
    \* the hooks of concurrent sessions (HookSpec), on rawMessages
    currentSessionId,  \* let currentSessionId: << >> undefined, << s >> a session key
    turns,             \* per session: where its agent_end invocation is, what it produced
    \* two mem0-sleep processes on one log directory (OverlapSpec)
    overlap,           \* per process: its position, candidate list and add calls
    \* concurrent first calls of a provider's operations (ProviderSpec)
    mem0               \* this.client, this.initPromise, the promises and the callers

vars == << files, processed, digests, store, today, digestEnabled, runs, pc, opts,
           unprocessed, idx, entries, existingMemories, trace, start,
           processedReadOk, resumeDate,
           logFiles, appended, tampered, lastRead, writes,
           sentinel, found, markRun, marked,
           chunkInput, maxChunkChars, chunkPos, currentChunk, chunks, chunkPc,
           idMap, idCall, idLoaded,
           ctx, userId,
           rawMessages, cleanCall, captureLog,
           searchCall, response, analysis,
           stamped, captures, late, currentSessionId, turns, overlap, mem0 >>

\* the variables of the command and of each part exercised on its own
logVars   == << logFiles, appended, tampered, lastRead, writes >>
markVars  == << sentinel, found, markRun, marked >>
chunkVars == << chunkInput, maxChunkChars, chunkPos, currentChunk, chunks, chunkPc >>
idVars    == << idMap, idCall, idLoaded >>
uidVars   == << ctx, userId >>
captureVars == << rawMessages, cleanCall, captureLog >>
parseVars == << response, analysis >>
liveVars == << stamped, captures, late >>
hookVars == << currentSessionId, turns >>
restVars == << liveVars, hookVars, overlap, mem0 >>
laterVars == << uidVars, captureVars, searchCall, parseVars, restVars >>
libraryVars == << logVars, markVars, chunkVars, idVars, laterVars >>

----------------------------------------------------------------------------
(* Bounds of the model *)

MaxRuns == 2

(* Program constants *)

MaxAddMessages == 20

----------------------------------------------------------------------------
(* Dates and strings *)

D07 == << "2", "0", "2", "6", "-", "0", "2", "-", "0", "7" >>
D08 == << "2", "0", "2", "6", "-", "0", "2", "-", "0", "8" >>
D09 == << "2", "0", "2", "6", "-", "0", "2", "-", "0", "9" >>
D10 == << "2", "0", "2", "6", "-", "0", "2", "-", "1", "0" >>

\* "2026-2-8": not of the form YYYY-MM-DD
BadDate == << "2", "0", "2", "6", "-", "2", "-", "8" >>
\* "": an option value that is the empty string
EmptyStr == << >>

FileDates == { D07, D08, D09, D10 }

\* the UTC-midnight rollover of the model's calendar
NextDay == [ d \in { D09 } |-> D10 ]

Digits == { "0", "1", "2", "3", "4", "5", "6", "7", "8", "9" }

Range(s) == { s[i] : i \in DOMAIN s }

\* collation rank of the characters of a date string: "-" before the digits
CharRank ==
    [ c \in Digits \cup { "-" } |->
        CASE c = "-" -> 0
          [] c = "0" -> 1 [] c = "1" -> 2 [] c = "2" -> 3 [] c = "3" -> 4
          [] c = "4" -> 5 [] c = "5" -> 6 [] c = "6" -> 7 [] c = "7" -> 8
          [] c = "8" -> 9 [] c = "9" -> 10 ]

\* a.localeCompare(b) < 0 on strings of digits and hyphens: the first
\* differing character decides, a proper prefix sorts first
StrLess(a, b) ==
    LET n == IF Len(a) < Len(b) THEN Len(a) ELSE Len(b)
        diff == { i \in 1..n : a[i] # b[i] }
    IN  IF diff = { } THEN Len(a) < Len(b)
        ELSE LET k == CHOOSE i \in diff : \A j \in diff : i <= j
             IN  CharRank[a[k]] < CharRank[b[k]]

\* /^\d{4}-\d{2}-\d{2}$/.test(s)
DatePattern(s) ==
    /\ Len(s) = 10
    /\ \A i \in { 1, 2, 3, 4, 6, 7, 9, 10 } : s[i] \in Digits
    /\ s[5] = "-"
    /\ s[8] = "-"

----------------------------------------------------------------------------
(* Daily log files *)

\* a line of a daily log: blank after trim(), rejected by JSON.parse, or the
\* JSON text of a value
Blank   == [ kind |-> "blank" ]
Garbage == [ kind |-> "garbage" ]
Line(e) == [ kind |-> "entry", entry |-> e ]

\* log entries of the command's runs: a message is represented by its role
EntryTool == [ messages |-> << "tool" >> ]
EntryUser == [ messages |-> << "user", "tool", "assistant" >> ]
\* a long session: a user message, a tool message and 19 replies
EntryMany == [ messages |-> [ i \in 1..21 |->
                 IF i = 1 THEN "user" ELSE IF i = 2 THEN "tool" ELSE "assistant" ] ]

Absent == [ exists |-> FALSE, lines |-> << >> ]
File(ls) == [ exists |-> TRUE, lines |-> ls ]

\* contents a closed daily log can have
FileContents ==
    { Absent, File(<< Garbage, Blank >>), File(<< Line(EntryTool) >>),
      File(<< Garbage, Line(EntryUser), Blank >>),
      File(<< Line(EntryUser), Garbage, Line(EntryMany) >>) }

\* faulty variant: the first line JSON.parse rejects ends the loop
readDailyLogStopAtCorrupt(file) ==
    IF ~file.exists THEN << >>
    ELSE LET bad == { i \in DOMAIN file.lines : file.lines[i].kind = "garbage" }
             upto == IF bad = { } THEN Len(file.lines)
                     ELSE (CHOOSE i \in bad : \A j \in bad : i <= j) - 1
             parsed == SelectSeq(SubSeq(file.lines, 1, upto), LAMBDA l : l.kind = "entry")
         IN  [ i \in 1..Len(parsed) |-> parsed[i].entry ]

\* readDailyLog, given that the read itself succeeds: the values of the
\* non-blank lines that parse, in file order
readDailyLog(file) ==
    IF ~file.exists THEN << >>
    ELSE LET parsed == SelectSeq(file.lines, LAMBDA l : l.kind = "entry")
         IN  [ i \in 1..Len(parsed) |-> parsed[i].entry ]

\* getProcessedDates: the set of the lines of .processed; empty when the
\* file cannot be read
getProcessedDates(lines, readOk) ==
    IF readOk THEN Range(lines) ELSE { }

\* faulty variant: the sentinel file is overwritten instead of appended to
markProcessedOverwrite(lines, date) == << date >>

\* markProcessed: append the date as one more line of .processed
markProcessed(lines, date) == Append(lines, date)

\* insertion of one date into a list sorted by localeCompare
RECURSIVE InsertSorted(_, _)
InsertSorted(d, s) ==
    IF s = << >> THEN << d >>
    ELSE IF StrLess(d, Head(s)) THEN << d >> \o s
    ELSE << Head(s) >> \o InsertSorted(d, Tail(s))

RECURSIVE SortByDate(_)
SortByDate(s) ==
    IF s = << >> THEN << >> ELSE InsertSorted(Head(s), SortByDate(Tail(s)))

\* faulty variant: the listing is filtered but not sorted
findUnprocessedLogsUnsorted(dirList, procSet, now) ==
    SelectSeq(dirList, LAMBDA d : d # now /\ d \notin procSet)

\* faulty variant: the processed dates are not filtered out
findUnprocessedLogsNoWatermark(dirList, procSet, now) ==
    SortByDate(SelectSeq(dirList, LAMBDA d : d # now))

\* faulty variant: the current date is not filtered out
findUnprocessedLogsKeepsToday(dirList, procSet, now) ==
    SortByDate(SelectSeq(dirList, LAMBDA d : d \notin procSet))

\* findUnprocessedLogs: dirList is the dates of the *.jsonl names of
\* readdirSync's listing, in the directory's order
findUnprocessedLogs(dirList, procSet, now) ==
    SortByDate(SelectSeq(dirList, LAMBDA d : d # now /\ d \notin procSet))

\* the directory listings readdirSync can return for the current files
DirListings ==
    LET present == { d \in FileDates : files[d].exists }
        n == Cardinality(present)
    IN  { s \in [ 1..n -> present ] : \A i, j \in 1..n : i # j => s[i] # s[j] }

\* the outcomes of getProcessedDates' read: .processed is read only when it exists
ReadOutcomes == IF processed = << >> THEN { TRUE } ELSE BOOLEAN

----------------------------------------------------------------------------
(* The mem0-sleep command *)

NoDate == [ hasDate |-> FALSE, date |-> << >> ]
DateArg(s) == [ hasDate |-> TRUE, date |-> s ]

Options ==
    { [ date |-> a, dryRun |-> b ] :
        a \in { NoDate, DateArg(D07), DateArg(D09), DateArg(BadDate), DateArg(EmptyStr) },
        b \in BOOLEAN }

\* the truthiness of opts.date: undefined and "" are falsy
DateGiven(o) == o.date.hasDate /\ o.date.date # << >>

\* opts.date && !/^\d{4}-\d{2}-\d{2}$/.test(opts.date)
InvalidDate(o) == DateGiven(o) /\ ~DatePattern(o.date.date)

\* const unprocessed = opts.date ? [{date: opts.date, ...}] : findUnprocessedLogs(logDir)
Discover(o, dirList, readOk) ==
    IF DateGiven(o) THEN << o.date.date >>
    ELSE findUnprocessedLogs(dirList, getProcessedDates(processed, readOk), today)

\* faulty variant: --dry-run is not looked at
IsDryRunIgnored(o) == FALSE

\* if (opts.dryRun) return
IsDryRun(o) == o.dryRun

\* entries.flatMap(e => e.messages.filter(user|assistant))
RECURSIVE FlatMessages(_)
FlatMessages(es) ==
    IF es = << >> THEN << >>
    ELSE SelectSeq(Head(es).messages, LAMBDA r : r \in { "user", "assistant" })
         \o FlatMessages(Tail(es))

\* faulty variant: the first 20 messages are sent
LastMessagesFirst(ms) ==
    IF Len(ms) <= MaxAddMessages THEN ms ELSE SubSeq(ms, 1, MaxAddMessages)

\* messages.slice(-20)
LastMessages(ms) ==
    IF Len(ms) <= MaxAddMessages THEN ms
    ELSE SubSeq(ms, Len(ms) - MaxAddMessages + 1, Len(ms))

Ev(op, date, res) == [ op |-> op, date |-> date, res |-> res ]

\* provider.add(messages.slice(-20), buildAddOptions()) is called
AddCall(date, ms) ==
    [ op |-> "add", date |-> date, res |-> "call", messages |-> LastMessages(ms) ]

Running == { "getAll", "load", "add", "digest", "mark" }
Ended   == { "idle", "invalid", "caughtUp", "dryRun", "complete", "crashed", "killed" }

CurDate == unprocessed[idx]

Snapshot == [ processed |-> Range(processed), digests |-> digests, store |-> store ]

Persistent == << files, processed, digests, store, today, digestEnabled >>

\* what every invocation sets when it begins
Begin(o, cands, readOk, tr) ==
    /\ runs' = runs + 1
    /\ opts' = o
    /\ unprocessed' = cands
    /\ idx' = 1
    /\ entries' = << >>
    /\ existingMemories' = { }
    /\ trace' = tr
    /\ start' = Snapshot
    /\ processedReadOk' = readOk
    /\ resumeDate' = IF pc = "killed" /\ ~DateGiven(opts) /\ processedReadOk
                     THEN << CurDate >> ELSE << >>
    /\ UNCHANGED << libraryVars, Persistent >>

\* the command up to its first await: validate --date, find the candidates,
\* return when there are none or on --dry-run, else call provider.getAll
Invoke ==
    /\ pc \in Ended
    /\ runs < MaxRuns
    /\ \E readOk \in ReadOutcomes :
          LET listed == { Discover([ date |-> NoDate, dryRun |-> FALSE ], l, readOk) :
                            l \in DirListings }
          IN  \E o \in Options :
                /\ DateGiven(o) => readOk
                /\ IF InvalidDate(o)
                   THEN /\ Begin(o, << >>, readOk, << >>)
                        /\ pc' = "invalid"
                   ELSE \E cands \in (IF DateGiven(o)
                                         THEN { Discover(o, << >>, readOk) }
                                         ELSE listed) :
                          IF cands = << >>
                          THEN /\ Begin(o, cands, readOk, << >>)
                               /\ pc' = "caughtUp"
                          ELSE IF IsDryRun(o)
                          THEN /\ Begin(o, cands, readOk, << >>)
                               /\ pc' = "dryRun"
                          ELSE /\ Begin(o, cands, readOk,
                                        << Ev("getAll", << >>, "call") >>)
                               /\ pc' = "getAll"

RunFrame == << runs, opts, unprocessed, start, processedReadOk, resumeDate >>

\* provider.getAll returns or throws; a throw leaves existingMemories empty
GetAllReturn ==
    \E ok \in BOOLEAN :
        /\ pc = "getAll"
        /\ existingMemories' = IF ok THEN store ELSE { }
        /\ trace' = Append(trace, Ev("getAll", << >>, IF ok THEN "ok" ELSE "throw"))
        /\ pc' = "load"
        /\ UNCHANGED << libraryVars, Persistent, RunFrame, idx, entries >>

\* the loop goes on to the next candidate, or the run completes
NextDate ==
    /\ idx' = IF idx < Len(unprocessed) THEN idx + 1 ELSE idx
    /\ pc' = IF idx < Len(unprocessed) THEN "load" ELSE "complete"

\* the file at log.path
LogFile(d) == IF d \in FileDates THEN files[d] ELSE Absent

\* readDailyLog(log.path) throws: nothing catches it
LoadThrows ==
    /\ pc = "load"
    /\ LogFile(CurDate).exists
    /\ trace' = Append(trace, Ev("readDailyLog", CurDate, "throw"))
    /\ pc' = "crashed"
    /\ UNCHANGED << libraryVars, Persistent, RunFrame, idx, entries, existingMemories >>

\* faulty variant: the empty-day and no-message guards are gone, add is always called
AfterLoadAlwaysAdd(es) == "add"

\* where the loop body goes after reading the day's entries
AfterLoad(es) ==
    IF Len(es) = 0 THEN "mark"
    ELSE IF Len(FlatMessages(es)) > 0 THEN "add"
    ELSE "mark"

\* readDailyLog(log.path); zero entries or no user/assistant message: go to
\* markProcessed; else call provider.add(messages.slice(-20)) and await it
LoadDay ==
    /\ pc = "load"
    /\ LET es == readDailyLog(LogFile(CurDate))
       IN  /\ entries' = es
           /\ pc' = AfterLoad(es)
           /\ trace' = IF AfterLoad(es) = "add"
                       THEN trace \o << Ev("readDailyLog", CurDate, "ok"),
                                        AddCall(CurDate, FlatMessages(es)) >>
                       ELSE Append(trace, Ev("readDailyLog", CurDate, "ok"))
    /\ UNCHANGED << libraryVars, Persistent, RunFrame, idx, existingMemories >>

\* faulty variant: the catch block lacks its `continue`, a failed add falls through
\* to markProcessed
AddReturnNoContinue ==
    \E ok \in BOOLEAN :
        /\ pc = "add"
        /\ trace' = Append(trace, Ev("add", CurDate, IF ok THEN "ok" ELSE "throw"))
        /\ store' = IF ok THEN store \cup { CurDate } ELSE store
        /\ pc' = IF ok /\ digestEnabled THEN "digest" ELSE "mark"
        /\ UNCHANGED << libraryVars, files, processed, digests, today, digestEnabled,
                        RunFrame, idx, entries, existingMemories >>

\* provider.add returns, or throws into the catch: skip the date
AddReturn ==
    \E ok \in BOOLEAN :
        /\ pc = "add"
        /\ trace' = Append(trace, Ev("add", CurDate, IF ok THEN "ok" ELSE "throw"))
        /\ IF ok
           THEN /\ store' = store \cup { CurDate }
                /\ pc' = IF digestEnabled THEN "digest" ELSE "mark"
                /\ idx' = idx
           ELSE /\ store' = store
                /\ NextDate
        /\ UNCHANGED << libraryVars, files, processed, digests, today, digestEnabled,
                        RunFrame, entries, existingMemories >>

\* faulty variant: a failed saveDigest is swallowed and the date is marked
SaveDigestNoContinue ==
    \E ok \in BOOLEAN :
        /\ pc = "digest"
        /\ trace' = Append(trace, Ev("saveDigest", CurDate, IF ok THEN "ok" ELSE "throw"))
        /\ digests' = IF ok THEN digests \cup { CurDate } ELSE digests
        /\ pc' = "mark"
        /\ UNCHANGED << libraryVars, files, processed, store, today, digestEnabled,
                        RunFrame, idx, entries, existingMemories >>

\* saveDigest writes <digestDir>/<date>.md, or throws into the catch: skip the date
SaveDigest ==
    \E ok \in BOOLEAN :
        /\ pc = "digest"
        /\ trace' = Append(trace, Ev("saveDigest", CurDate, IF ok THEN "ok" ELSE "throw"))
        /\ IF ok
           THEN /\ digests' = digests \cup { CurDate }
                /\ pc' = "mark"
                /\ idx' = idx
           ELSE /\ digests' = digests
                /\ NextDate
        /\ UNCHANGED << libraryVars, files, processed, store, today, digestEnabled,
                        RunFrame, entries, existingMemories >>

\* markProcessed(logDir, log.date) appends the date; a throw is not caught
MarkProcessed ==
    \E ok \in BOOLEAN :
        /\ pc = "mark"
        /\ trace' = Append(trace, Ev("markProcessed", CurDate, IF ok THEN "ok" ELSE "throw"))
        /\ IF ok
           THEN /\ processed' = markProcessed(processed, CurDate)
                /\ NextDate
           ELSE /\ processed' = processed
                /\ pc' = "crashed"
                /\ idx' = idx
        /\ UNCHANGED << libraryVars, files, digests, store, today, digestEnabled,
                        RunFrame, entries, existingMemories >>

\* the process is killed while the command runs
Interrupt ==
    /\ pc \in Running
    /\ pc' = "killed"
    /\ UNCHANGED << libraryVars, Persistent, RunFrame, idx, entries, existingMemories, trace >>

\* UTC midnight passes
Tick ==
    /\ today \in DOMAIN NextDay
    /\ today' = NextDay[today]
    /\ UNCHANGED << libraryVars, files, processed, digests, store, digestEnabled, pc,
                    RunFrame, idx, entries, existingMemories, trace >>

\* the parts exercised on their own are at rest while the command runs
LogUnused ==
    /\ logFiles = [ d \in FileDates |-> [ exists |-> FALSE, content |-> << >> ] ]
    /\ appended = [ d \in FileDates |-> << >> ]
    /\ tampered = { }
    /\ lastRead = [ called |-> FALSE ]
    /\ writes = 0

MarkUnused ==
    /\ sentinel = [ exists |-> FALSE, content |-> << >> ]
    /\ found = [ called |-> FALSE ]
    /\ markRun = [ count |-> 0 ]
    /\ marked = { }

ChunkUnused ==
    /\ chunkInput = << >>
    /\ maxChunkChars = 0
    /\ chunkPos = 1
    /\ currentChunk = << >>
    /\ chunks = << >>
    /\ chunkPc = "done"

IdUnused ==
    /\ idMap = << >>
    /\ idCall = [ called |-> FALSE ]
    /\ idLoaded = FALSE

UidUnused ==
    /\ ctx = [ sessionKey |-> << >>, messageProvider |-> << >>, messageChannel |-> << >> ]
    /\ userId = [ done |-> FALSE, op |-> "none" ]

CaptureUnused ==
    /\ rawMessages = << >>
    /\ cleanCall = [ called |-> FALSE ]
    /\ captureLog = [ events |-> 0, entries |-> << >> ]

SearchUnused ==
    /\ searchCall = [ called |-> FALSE ]

ParseUnused ==
    /\ response = << >>
    /\ analysis = [ called |-> FALSE ]

LiveUnused ==
    /\ stamped = << >>
    /\ captures = 0
    /\ late = { }

HookUnused ==
    /\ currentSessionId = << >>
    /\ turns = << >>

OverlapUnused ==
    /\ overlap = << >>

ProviderUnused ==
    /\ mem0 = << >>

RestUnused ==
    /\ LiveUnused
    /\ HookUnused
    /\ OverlapUnused
    /\ ProviderUnused

LaterUnused ==
    /\ UidUnused
    /\ CaptureUnused
    /\ SearchUnused
    /\ ParseUnused
    /\ RestUnused

Init ==
    /\ files \in { f \in [ FileDates -> FileContents ] :
                     /\ f[D07] # f[D08]
                     /\ f[D08] = File(<< Garbage, Line(EntryUser), Blank >>)
                     /\ f[D09] = File(<< Line(EntryTool) >>)
                     /\ f[D10] = Absent }
    /\ processed = << >>
    /\ digests = { }
    /\ store = { }
    /\ today = D09
    /\ digestEnabled \in BOOLEAN
    /\ runs = 0
    /\ pc = "idle"
    /\ opts = [ date |-> NoDate, dryRun |-> FALSE ]
    /\ unprocessed = << >>
    /\ idx = 1
    /\ entries = << >>
    /\ existingMemories = { }
    /\ trace = << >>
    /\ start = [ processed |-> { }, digests |-> { }, store |-> { } ]
    /\ processedReadOk = TRUE
    /\ resumeDate = << >>
    /\ LogUnused
    /\ MarkUnused
    /\ ChunkUnused
    /\ IdUnused
    /\ LaterUnused

Next ==
    \/ Invoke
    \/ GetAllReturn
    \/ LoadThrows
    \/ LoadDay
    \/ AddReturn
    \/ SaveDigest
    \/ MarkProcessed
    \/ Interrupt
    \/ Tick

Spec == Init /\ [][Next]_vars

----------------------------------------------------------------------------
(* Properties *)

Did(op, d, res) ==
    \E i \in DOMAIN trace : trace[i].op = op /\ trace[i].date = d /\ trace[i].res = res

\* the dates this invocation has appended to .processed
MarkedInRun == { trace[i].date : i \in { j \in DOMAIN trace :
                    trace[j].op = "markProcessed" /\ trace[j].res = "ok" } }

\* the loop iteration of date d is over: marked, or skipped by the catch block
IterationOver(d) ==
    \/ Did("markProcessed", d, "ok")
    \/ Did("add", d, "throw")
    \/ Did("saveDigest", d, "throw")

EntriesOf(d) == readDailyLog(LogFile(d))

HasUserOrAssistant(d) == Len(FlatMessages(EntriesOf(d))) > 0

\* markProcessed(d) at position k of the trace comes after a completed add
\* and, when digestEnabled, a completed saveDigest for d
PromotedBefore(k, d) ==
    \E i \in 1..(k - 1) :
        /\ trace[i] = Ev("add", d, "ok")
        /\ digestEnabled =>
              \E j \in (i + 1)..(k - 1) : trace[j] = Ev("saveDigest", d, "ok")

\* the dates .processed gained since the invocation began are those it marked
OnlyMarkAdds == Range(processed) \ start.processed \subseteq MarkedInRun

MarkPositions == { k \in DOMAIN trace :
                     trace[k].op = "markProcessed" /\ trace[k].res = "ok" }

\* C1 (as stated): a date whose daily log has at least one entry is in the
\* processed set only if, in the same run, the store add and (when
\* digestEnabled) saveDigest for it completed before markProcessed was called.
C1_MarkedOnlyAfterPromotion ==
    /\ OnlyMarkAdds
    /\ \A k \in MarkPositions :
          Len(EntriesOf(trace[k].date)) > 0 => PromotedBefore(k, trace[k].date)

\* C1 (amended): a date whose daily log has at least one user or assistant
\* message is in the processed set only if, in the same run, the store add
\* and (when digestEnabled) saveDigest for it completed before markProcessed.
C1_MarkedOnlyAfterPromotionOfMessages ==
    /\ OnlyMarkAdds
    /\ \A k \in MarkPositions :
          HasUserOrAssistant(trace[k].date) => PromotedBefore(k, trace[k].date)

C1_Witness ==
    /\ pc = "complete"
    /\ digestEnabled
    /\ \E d \in MarkedInRun : HasUserOrAssistant(d)
    /\ \E d \in Range(unprocessed) : Did("add", d, "throw")

\* the position of date d in the candidate list
CandidateIndex(d) == CHOOSE i \in DOMAIN unprocessed : unprocessed[i] = d

\* C2: if provider.add or saveDigest throws while date d is processed, d is
\* not added to the processed set in that run, and the run goes on to handle
\* every candidate date after d.
C2_FailureIsolation ==
    \A k \in DOMAIN trace :
        (trace[k].op \in { "add", "saveDigest" } /\ trace[k].res = "throw") =>
            /\ trace[k].date \notin MarkedInRun
            /\ pc \in { "complete", "crashed" } =>
                  \A i \in DOMAIN unprocessed :
                      i > CandidateIndex(trace[k].date) => IterationOver(unprocessed[i])

\* C3: every run that gets past Discover ends in its terminal state after
\* handling every candidate date; no failure of a per-day step makes the run
\* as a whole fail or stop before the last candidate date.
C3_RunAlwaysCompletes ==
    /\ pc # "crashed"
    /\ pc = "complete" => \A d \in Range(unprocessed) : IterationOver(d)

\* no add, digest write or markProcessed of this invocation is for a date
\* that was in the processed set when it began
NoReprocessing ==
    \A i \in DOMAIN trace :
        trace[i].op \in { "add", "saveDigest", "markProcessed" } =>
            trace[i].date \notin start.processed

\* C4 (as stated): with or without --date, a date already in the processed
\* set when the run starts is not processed again by that run.
C4_WatermarkPreventsReprocessing == NoReprocessing

\* C4 (amended): a run without a --date value whose read of .processed
\* succeeds does not process again a date that was in the processed set
\* when it started.
C4_WatermarkPreventsReprocessingWhenListed ==
    (~DateGiven(opts) /\ processedReadOk) => NoReprocessing

C4_Witness ==
    /\ pc = "complete"
    /\ ~DateGiven(opts)
    /\ processedReadOk
    /\ \E d \in start.processed : LogFile(d).exists /\ d # today
    /\ MarkedInRun # { }

\* the invocation was killed in the middle of a date: its last operation
\* belongs to the current candidate
MidDate == Len(trace) > 0 /\ trace[Len(trace)].date = CurDate

\* the dates marked before and during the invocation are still marked
MarksKept == start.processed \cup MarkedInRun \subseteq Range(processed)

\* a date is handled from Load: its first operation is the read of its log
FromLoad(d) ==
    \A i \in DOMAIN trace :
        (trace[i].date = d /\ \A j \in 1..(i - 1) : trace[j].date # d) =>
            trace[i].op = "readDailyLog"

\* the run after an interrupted listing run selects the interrupted date
\* again and handles it from Load
Resumes ==
    (resumeDate # << >> /\ ~DateGiven(opts)) =>
        /\ resumeDate[1] \in Range(unprocessed)
        /\ FromLoad(resumeDate[1])

\* C5 (as stated): if a run is interrupted at any point, the dates marked
\* before stay marked, the date in progress is not in the processed set, and
\* the next run without --date selects that date again and processes it
\* from Load.
C5_Resumable ==
    /\ MarksKept
    /\ (pc = "killed" /\ MidDate) => CurDate \notin Range(processed)
    /\ Resumes

\* C5 (amended): the same, for an interrupted run that took its candidates
\* from findUnprocessedLogs (no --date value) after reading .processed.
C5_ResumableWhenListed ==
    /\ MarksKept
    /\ (pc = "killed" /\ ~DateGiven(opts) /\ processedReadOk) =>
            CurDate \notin Range(processed)
    /\ Resumes

C5_Witness ==
    /\ resumeDate # << >>
    /\ start.processed # { }
    /\ ~DateGiven(opts)
    /\ pc = "complete"
    /\ Did("markProcessed", resumeDate[1], "ok")

\* C6: a dry-run changes nothing: the processed set, the digest directory
\* and the memory store are as at its start, and no store call is issued.
C6_DryRunChangesNothing ==
    opts.dryRun =>
        /\ trace = << >>
        /\ pc \notin Running
        /\ Range(processed) = start.processed
        /\ digests = start.digests
        /\ store = start.store

C6_Witness ==
    /\ pc = "dryRun"
    /\ opts.dryRun
    /\ Len(unprocessed) >= 2
    /\ start.processed # { }

\* C7: a run given a date argument that does not match the pattern aborts
\* before any date is touched: no log read, no store call, no digest write,
\* processed set unchanged.
C7_BadDateAborts ==
    (opts.date.hasDate /\ ~DatePattern(opts.date.date)) =>
        /\ pc \in { "idle", "invalid" }
        /\ trace = << >>
        /\ Range(processed) = start.processed

\* C8: in every run, with or without --date, the daily log of the current
\* UTC date is never read for processing and the current UTC date is never
\* added to the processed set (checked at each step that extends the trace).
C8_TodayNeverTouched ==
    [][ \A i \in DOMAIN trace' :
          (i > Len(trace)
             /\ trace'[i].op \in { "readDailyLog", "markProcessed" }
             /\ trace'[i].res = "ok") =>
                trace'[i].date # today ]_vars

\* the asynchronous calls of the trace that have not returned
Outstanding ==
    { i \in DOMAIN trace :
        /\ trace[i].res = "call"
        /\ ~ \E j \in (i + 1)..Len(trace) :
               /\ trace[j].op = trace[i].op
               /\ trace[j].date = trace[i].date
               /\ trace[j].res \in { "ok", "throw" } }

\* the operations of the trace that belong to a date
DatedTrace == SelectSeq(trace, LAMBDA e : e.date # << >>)

\* C9: the candidate dates are handled one at a time in strictly ascending
\* date order: the steps of a date are over before any step of the next
\* begins, and at most one store or file operation is outstanding.
C9_SequentialAscending ==
    /\ \A i \in 1..(Len(unprocessed) - 1) :
          StrLess(unprocessed[i], unprocessed[i + 1])
    /\ \A i \in 1..(Len(DatedTrace) - 1) :
          ~StrLess(DatedTrace[i + 1].date, DatedTrace[i].date)
    /\ Cardinality(Outstanding) <= 1
    /\ \A i \in DOMAIN trace :
          (trace[i].res = "call" /\ i < Len(trace)) =>
              /\ trace[i + 1].op = trace[i].op
              /\ trace[i + 1].date = trace[i].date
              /\ trace[i + 1].res \in { "ok", "throw" }

C9_Witness ==
    /\ pc = "complete"
    /\ Len(unprocessed) >= 3
    /\ \E d1, d2 \in Range(unprocessed) :
          d1 # d2 /\ Did("add", d1, "ok") /\ Did("add", d2, "ok")

\* C10: for a candidate date whose daily log yields zero entries, the run
\* goes from the read straight to markProcessed, which adds the date to the
\* processed set, without calling the store's add or writing a digest.
C10_EmptyDayMarked ==
    \A i \in DOMAIN trace :
        (trace[i].op = "readDailyLog" /\ trace[i].res = "ok"
            /\ Len(EntriesOf(trace[i].date)) = 0) =>
            /\ ~Did("add", trace[i].date, "call")
            /\ ~Did("saveDigest", trace[i].date, "ok")
            /\ ~Did("saveDigest", trace[i].date, "throw")
            /\ IF i < Len(trace)
               THEN /\ trace[i + 1].op = "markProcessed"
                    /\ trace[i + 1].date = trace[i].date
                    /\ trace[i + 1].res = "ok" => trace[i].date \in Range(processed)
               ELSE pc \in { "mark", "killed" }

C10_Witness ==
    /\ pc = "complete"
    /\ Len(unprocessed) >= 2
    /\ \E d \in MarkedInRun : Len(EntriesOf(d)) = 0 /\ LogFile(d).exists

\* C11: if the store's getAll throws when the run fetches the existing
\* memories before the per-date loop, the run continues with an empty dedup
\* list and still handles every candidate date.
C11_GetAllFailureDegrades ==
    Did("getAll", << >>, "throw") =>
        /\ existingMemories = { }
        /\ pc # "getAll"
        /\ pc \in { "complete", "crashed" } =>
              \A d \in Range(unprocessed) : IterationOver(d)

----------------------------------------------------------------------------
(* Text: a string is the sequence of its characters; a fixed piece of text *)
(* that is never looked into (".jsonl", a role name) is one element        *)

\* String.prototype.split(sep) for a one-character separator
split(s, sep) ==
    LET seps == { i \in DOMAIN s : s[i] = sep }
        n == Cardinality(seps)
        pos(k) == IF k = 0 THEN 0
                  ELSE IF k = n + 1 THEN Len(s) + 1
                  ELSE CHOOSE i \in seps : Cardinality({ j \in seps : j <= i }) = k
    IN  [ k \in 1..(n + 1) |-> SubSeq(s, pos(k - 1) + 1, pos(k) - 1) ]

WhiteSpace == { " ", "\t", "\r", "\n" }

\* String.prototype.trim()
trim(s) ==
    LET black == { i \in DOMAIN s : s[i] \notin WhiteSpace }
    IN  IF black = { } THEN << >>
        ELSE SubSeq(s, CHOOSE i \in black : \A j \in black : i <= j,
                       CHOOSE i \in black : \A j \in black : j <= i)

\* faulty variant: the characters of a string are written out as they are
EscapeNothing(s) == s

\* the characters of a string as JSON.stringify writes them between the quotes
RECURSIVE Escape(_)
Escape(s) ==
    IF s = << >> THEN << >>
    ELSE (CASE Head(s) = "\n" -> << "\\", "n" >>
            [] Head(s) = "\"" -> << "\\", "\"" >>
            [] Head(s) = "\\" -> << "\\", "\\" >>
            [] OTHER -> << Head(s) >>) \o Escape(Tail(s))

\* whether JSON.parse accepts these characters between the quotes of a string
RECURSIVE ValidBody(_)
ValidBody(s) ==
    IF s = << >> THEN TRUE
    ELSE IF Head(s) = "\\"
         THEN /\ Len(s) >= 2
              /\ s[2] \in { "n", "\"", "\\" }
              /\ ValidBody(Tail(Tail(s)))
    ELSE IF Head(s) \in { "\"", "\n", "\r", "\t" } THEN FALSE
    ELSE ValidBody(Tail(s))

\* the string JSON.parse reads from the characters between the quotes
RECURSIVE Unescape(_)
Unescape(s) ==
    IF s = << >> THEN << >>
    ELSE IF Head(s) = "\\"
         THEN << (IF s[2] = "n" THEN "\n" ELSE s[2]) >> \o Unescape(Tail(Tail(s)))
    ELSE << Head(s) >> \o Unescape(Tail(s))

JSONstring(s) == << "\"" >> \o Escape(s) \o << "\"" >>

ValidString(f) ==
    /\ Len(f) >= 2
    /\ f[1] = "\""
    /\ f[Len(f)] = "\""
    /\ ValidBody(SubSeq(f, 2, Len(f) - 1))

StringValue(f) == Unescape(SubSeq(f, 2, Len(f) - 1))

\* the strings of a log entry in the order they are written: ts, user_id and
\* each message's role and content (session_id and channel are written like
\* user_id)
RECURSIVE MessageStrings(_)
MessageStrings(ms) ==
    IF ms = << >> THEN << >>
    ELSE << Head(ms).role, Head(ms).content >> \o MessageStrings(Tail(ms))

EntryStrings(e) == << e.ts, e.user_id >> \o MessageStrings(e.messages)

RECURSIVE JoinComma(_)
JoinComma(fs) ==
    IF fs = << >> THEN << >>
    ELSE IF Len(fs) = 1 THEN JSONstring(Head(fs))
    ELSE JSONstring(Head(fs)) \o << "," >> \o JoinComma(Tail(fs))

\* JSON.stringify(entry): one line of text, the strings between braces
JSONstringify(e) == << "{" >> \o JoinComma(EntryStrings(e)) \o << "}" >>

\* JSON.parse(text): a number, an entry, or a SyntaxError
JSONparse(t) ==
    IF Len(t) = 1 /\ t[1] \in Digits THEN [ ok |-> TRUE, value |-> [ number |-> t[1] ] ]
    ELSE IF Len(t) >= 2 /\ t[1] = "{" /\ t[Len(t)] = "}"
    THEN LET fs == split(SubSeq(t, 2, Len(t) - 1), ",")
             n == Len(fs)
         IN  IF n >= 2 /\ n % 2 = 0 /\ \A i \in 1..n : ValidString(fs[i])
             THEN [ ok |-> TRUE,
                    value |-> [ ts |-> StringValue(fs[1]),
                                user_id |-> StringValue(fs[2]),
                                messages |->
                                    [ k \in 1..((n - 2) \div 2) |->
                                        [ role |-> StringValue(fs[2 * k + 1]),
                                          content |-> StringValue(fs[2 * k + 2]) ] ] ] ]
             ELSE [ ok |-> FALSE ]
    ELSE [ ok |-> FALSE ]

\* appendFileSync(file, data)
appendFileSync(content, data) == content \o data

----------------------------------------------------------------------------
(* The log store on its own: appendToLog and readDailyLog on the text of   *)
(* the daily log files                                                     *)

MaxWrites == 3

\* the variables of the mem0-sleep command
cmdVars == << files, processed, digests, store, today, digestEnabled, runs, pc, opts,
              unprocessed, idx, entries, existingMemories, trace, start,
              processedReadOk, resumeDate >>

\* the command is not running
CmdUnused ==
    /\ files = [ d \in FileDates |-> Absent ]
    /\ processed = << >>
    /\ digests = { }
    /\ store = { }
    /\ today = D09
    /\ digestEnabled = FALSE
    /\ runs = 0
    /\ pc = "idle"
    /\ opts = [ date |-> NoDate, dryRun |-> FALSE ]
    /\ unprocessed = << >>
    /\ idx = 1
    /\ entries = << >>
    /\ existingMemories = { }
    /\ trace = << >>
    /\ start = [ processed |-> { }, digests |-> { }, store |-> { } ]
    /\ processedReadOk = TRUE
    /\ resumeDate = << >>

\* new Date().toISOString() on day d
Timestamp(d) == d \o << "T", "1", "Z" >>

\* the dates turns are captured on
CaptureDates == { D07, D08 }

\* the entries buildLogEntry hands to appendToLog
LogEntries ==
    { [ ts |-> Timestamp(d), user_id |-> << "u" >>,
        messages |-> << [ role |-> << "user" >>, content |-> c ] >> ] :
        d \in CaptureDates, c \in { << "a" >>, << "a", "\n", "b" >> } }

\* entry.ts.split("T")[0]
DatePart(ts) == split(ts, "T")[1]

\* appendToLog(logDir, entry): dir maps each date to its file
appendToLog(dir, e) ==
    [ dir EXCEPT ![DatePart(e.ts)] =
        [ exists |-> TRUE,
          content |-> appendFileSync(@.content, JSONstringify(e) \o << "\n" >>) ] ]

\* one line of a daily log as readDailyLog's loop sees it
LineOf(raw) ==
    LET trimmed == trim(raw)
    IN  IF trimmed = << >> THEN Blank
        ELSE LET p == JSONparse(trimmed)
             IN  IF p.ok THEN Line(p.value) ELSE Garbage

\* content.split("\n") of a daily log
Lines(f) ==
    IF ~f.exists THEN Absent
    ELSE LET ls == split(f.content, "\n")
         IN  File([ i \in 1..Len(ls) |-> LineOf(ls[i]) ])

\* what a writer other than appendToLog can leave at the end of the log of
\* date d: a blank line, a line cut short, a bare number, a line without its
\* newline, an entry of another day
ForeignText(d) ==
    { << " ", "\n" >>, << "{", "\"", "a", "\n" >>, << "7", "\n" >>, << "{" >> }
    \cup { JSONstringify(e) \o << "\n" >> :
             e \in { x \in LogEntries : DatePart(x.ts) # d /\ x.messages[1].content = << "a" >> } }

AppendToLog ==
    /\ writes < MaxWrites
    /\ \E e \in LogEntries :
          /\ logFiles' = appendToLog(logFiles, e)
          /\ appended' = [ appended EXCEPT ![DatePart(e.ts)] = Append(@, e) ]
    /\ writes' = writes + 1
    /\ UNCHANGED << tampered, lastRead, cmdVars, laterVars, markVars, chunkVars, idVars >>

\* another writer adds to a daily log
Tamper ==
    /\ writes < MaxWrites
    /\ \E d \in CaptureDates : \E x \in ForeignText(d) :
          /\ logFiles' = [ logFiles EXCEPT ![d] =
                             [ exists |-> TRUE, content |-> appendFileSync(@.content, x) ] ]
          /\ tampered' = tampered \cup { d }
    /\ writes' = writes + 1
    /\ UNCHANGED << appended, lastRead, cmdVars, laterVars, markVars, chunkVars, idVars >>

\* readDailyLog(<logDir>/<d>.jsonl)
ReadDailyLog ==
    /\ \E d \in CaptureDates :
          lastRead' = [ called |-> TRUE, date |-> d, file |-> logFiles[d],
                        result |-> readDailyLog(Lines(logFiles[d])),
                        appended |-> appended[d], clean |-> tampered = { } ]
    /\ UNCHANGED << logFiles, appended, tampered, writes,
                    cmdVars, laterVars, markVars, chunkVars, idVars >>

LogInit ==
    /\ logFiles = [ d \in FileDates |-> [ exists |-> FALSE, content |-> << >> ] ]
    /\ appended = [ d \in FileDates |-> << >> ]
    /\ tampered = { }
    /\ lastRead = [ called |-> FALSE ]
    /\ writes = 0
    /\ CmdUnused
    /\ MarkUnused
    /\ ChunkUnused
    /\ IdUnused
    /\ LaterUnused

LogNext ==
    \/ AppendToLog
    \/ Tamper
    \/ ReadDailyLog

LogSpec == LogInit /\ [][LogNext]_vars

\* the entries stored in the daily log of date d
StoredEntries(d) == readDailyLog(Lines(logFiles[d]))

\* C14: after any sequence of appendToLog calls on an initially empty log
\* directory, every entry stored in the daily file for date D has D as the
\* date part of its timestamp, and readDailyLog of that file returns exactly
\* the entries appended for D, in the order the appends were made.
C14_AppendOrderAndDate ==
    /\ tampered = { } =>
          \A d \in FileDates :
              /\ StoredEntries(d) = appended[d]
              /\ \A i \in DOMAIN StoredEntries(d) : DatePart(StoredEntries(d)[i].ts) = d
    /\ (lastRead.called /\ lastRead.clean) => lastRead.result = lastRead.appended

C14_Witness ==
    /\ lastRead.called
    /\ lastRead.clean
    /\ tampered = { }
    /\ Len(lastRead.result) >= 2
    /\ lastRead.result[1] # lastRead.result[2]
    /\ \E i \in DOMAIN lastRead.result :
          "\n" \in Range(lastRead.result[i].messages[1].content)
    /\ \E d \in CaptureDates : d # lastRead.date /\ appended[d] # << >>

\* the lines of a file that are not blank and parse as JSON
ParsingLines(content) ==
    LET ls == split(content, "\n")
    IN  { i \in DOMAIN ls : trim(ls[i]) # << >> /\ JSONparse(trim(ls[i])).ok }

\* C15: readDailyLog never fails because of a corrupt line: for every file
\* content it returns the entries of exactly the non-blank lines that parse
\* as JSON, in file order, and an absent file yields the empty sequence.
C15_ReadSkipsCorruptLines ==
    lastRead.called =>
        IF ~lastRead.file.exists THEN lastRead.result = << >>
        ELSE LET ls == split(lastRead.file.content, "\n")
                 good == ParsingLines(lastRead.file.content)
             IN  /\ Len(lastRead.result) = Cardinality(good)
                 /\ \A i \in good :
                       lastRead.result[Cardinality({ j \in good : j <= i })]
                           = JSONparse(trim(ls[i])).value

C15_Witness ==
    /\ lastRead.called
    /\ lastRead.file.exists
    /\ Len(lastRead.result) >= 1
    /\ LET ls == split(lastRead.file.content, "\n")
           good == ParsingLines(lastRead.file.content)
       IN  \E i \in DOMAIN ls : \E j \in good :
              /\ i < j
              /\ trim(ls[i]) # << >>
              /\ i \notin good

----------------------------------------------------------------------------
(* The watermark on its own: markProcessed, getProcessedDates and          *)
(* findUnprocessedLogs on the text of .processed and the directory listing *)

MaxMarks == 3

\* <date>.jsonl
LogName(d) == d \o << ".jsonl" >>

SentinelName == << ".processed" >>

\* f.endsWith(".jsonl")
IsJsonl(f) == Len(f) >= 1 /\ f[Len(f)] = ".jsonl"

\* basename(f, ".jsonl")
basename(f) == SubSeq(f, 1, Len(f) - 1)

\* readdirSync(logDir).filter(endsWith ".jsonl").map(date: basename)
JsonlDates(listing) ==
    LET kept == SelectSeq(listing, IsJsonl)
    IN  [ i \in 1..Len(kept) |-> basename(kept[i]) ]

\* content.split("\n").map(trim).filter(Boolean)
ProcessedLines(content) ==
    LET ls == split(content, "\n")
    IN  SelectSeq([ i \in 1..Len(ls) |-> trim(ls[i]) ], LAMBDA l : l # << >>)

\* getProcessedDates(logDir) on the sentinel file
Watermark(f, readOk) ==
    IF ~f.exists THEN { } ELSE getProcessedDates(ProcessedLines(f.content), readOk)

\* faulty variant: the date is written without its newline
DateLineNoNewline(date) == date

\* date + "\n"
DateLine(date) == date \o << "\n" >>

\* the dates markProcessed is called with
MarkDates == { D07, D08, D09 }

\* the names readdirSync can list, in every order
MarkListings ==
    LET present == { LogName(d) : d \in { x \in FileDates : logFiles[x].exists } }
                   \cup (IF sentinel.exists THEN { SentinelName } ELSE { })
        n == Cardinality(present)
    IN  { s \in [ 1..n -> present ] : \A i, j \in 1..n : i # j => s[i] # s[j] }

\* the daily logs that exist
ExistingLogs == { d \in FileDates : logFiles[d].exists }

\* the processed set as a successful read gives it
ProcessedSet == Watermark(sentinel, TRUE)

\* markProcessed(logDir, d)
MarkProcessedCall ==
    /\ Len(ProcessedLines(sentinel.content)) < MaxMarks
    /\ \E d \in MarkDates :
          LET after == [ exists |-> TRUE,
                         content |-> appendFileSync(sentinel.content, DateLine(d)) ]
          IN  /\ sentinel' = after
              /\ marked' = marked \cup { d }
              /\ markRun' = [ count |-> IF markRun.count > 0 /\ markRun.date = d
                                        THEN markRun.count + 1 ELSE 1,
                              date |-> d,
                              before |-> ProcessedSet,
                              linesBefore |-> ProcessedLines(sentinel.content),
                              afterFirst |-> IF markRun.count > 0 /\ markRun.date = d
                                             THEN markRun.afterFirst
                                             ELSE Watermark(after, TRUE) ]
    /\ UNCHANGED << found, logVars, chunkVars, idVars, laterVars,
                    files, processed, digests, store, today, digestEnabled, runs, pc,
                    opts, unprocessed, idx, entries, existingMemories, trace, start,
                    processedReadOk, resumeDate >>

\* findUnprocessedLogs(logDir)
FindUnprocessed ==
    /\ \E listing \in MarkListings :
       \E readOk \in (IF sentinel.exists THEN BOOLEAN ELSE { TRUE }) :
          found' = [ called |-> TRUE,
                     result |-> findUnprocessedLogs(JsonlDates(listing),
                                                    Watermark(sentinel, readOk), today),
                     readOk |-> readOk,
                     read |-> Watermark(sentinel, readOk),
                     logs |-> ExistingLogs,
                     now |-> today,
                     marked |-> marked ]
    /\ UNCHANGED << sentinel, markRun, marked, logVars, chunkVars, idVars, cmdVars, laterVars >>

\* UTC midnight passes
MarkTick ==
    /\ today \in DOMAIN NextDay
    /\ today' = NextDay[today]
    /\ UNCHANGED << markVars, logVars, chunkVars, idVars, laterVars,
                    files, processed, digests, store, digestEnabled, runs, pc,
                    opts, unprocessed, idx, entries, existingMemories, trace, start,
                    processedReadOk, resumeDate >>

\* a daily log holding one entry of its date
OneEntryLog(d) ==
    [ exists |-> TRUE,
      content |-> JSONstringify([ ts |-> Timestamp(d), user_id |-> << "u" >>,
                                  messages |-> << [ role |-> << "user" >>,
                                                    content |-> << "a" >> ] >> ])
                  \o << "\n" >> ]

MarkInit ==
    /\ logFiles \in { f \in [ FileDates -> { [ exists |-> FALSE, content |-> << >> ] }
                                            \cup { OneEntryLog(d) : d \in FileDates } ] :
                        /\ \A d \in FileDates : f[d].exists => f[d] = OneEntryLog(d)
                        /\ ~f[D10].exists }
    /\ appended = [ d \in FileDates |-> << >> ]
    /\ tampered = { }
    /\ lastRead = [ called |-> FALSE ]
    /\ writes = 0
    /\ MarkUnused
    /\ CmdUnused
    /\ ChunkUnused
    /\ IdUnused
    /\ LaterUnused

MarkNext ==
    \/ MarkProcessedCall
    \/ FindUnprocessed
    \/ MarkTick

MarkSpec == MarkInit /\ [][MarkNext]_vars

\* the result of the last findUnprocessedLogs call: the daily-log dates that
\* are neither the current date nor in the processed set it read, each once,
\* ascending
FoundExact ==
    /\ \A i \in 1..(Len(found.result) - 1) :
          StrLess(found.result[i], found.result[i + 1])
    /\ Range(found.result) =
          { d \in found.logs : d # found.now /\ d \notin found.read }

\* C12 (as stated): findUnprocessedLogs returns exactly the daily-log dates
\* that are neither the current date nor in the processed set, each once,
\* sorted ascending by date string; after markProcessed(d) every later
\* findUnprocessedLogs call excludes d.
C12_FindUnprocessedExact ==
    found.called =>
        /\ FoundExact
        /\ \A d \in found.marked : d \notin Range(found.result)

\* C12 (amended): the same, where the calls that exclude every date marked
\* before them are those whose read of .processed succeeds.
C12_FindUnprocessedExactWhenRead ==
    found.called =>
        /\ FoundExact
        /\ found.readOk => \A d \in found.marked : d \notin Range(found.result)

C12_Witness ==
    /\ found.called
    /\ found.readOk
    /\ Len(found.result) >= 2
    /\ found.marked \cap found.logs # { }
    /\ found.now \in found.logs

\* C13: markProcessed is idempotent and monotone with respect to the set
\* read by getProcessedDates: calling markProcessed(d) any number of times
\* (at least once) yields the same processed set as calling it once, and no
\* markProcessed call removes a date that was in the set before the call.
C13_MarkIdempotentMonotone ==
    markRun.count >= 1 =>
        /\ ProcessedSet = markRun.afterFirst
        /\ markRun.date \in ProcessedSet
        /\ markRun.before \subseteq ProcessedSet
        /\ ProcessedLines(sentinel.content) = markProcessed(markRun.linesBefore, markRun.date)

C13_Witness ==
    /\ markRun.count >= 2
    /\ markRun.before \ { markRun.date } # { }

----------------------------------------------------------------------------
(* chunkForAnalysis on its own *)

MaxEntries == 3

\* DEFAULT_SLEEP_CONFIG.maxChunkChars
DefaultMaxChunkChars == 4000

\* `--- Session: ${entry.session_id} | User: ${entry.user_id} | ${entry.ts} ---`
HeaderLine(e) ==
    LET SessionText == << "-", "-", "-", " ", "S", "e", "s", "s", "i", "o", "n", ":", " " >>
        UserText    == << " ", "|", " ", "U", "s", "e", "r", ":", " " >>
        BarText     == << " ", "|", " " >>
        CloseText   == << " ", "-", "-", "-" >>
    IN  SessionText \o e.session_id \o UserText \o e.user_id \o BarText \o e.ts \o CloseText

\* `${prefix}: ${msg.content}` with prefix USER, TOOL(<tool_name or unknown>)
\* or ASSISTANT; an undefined or empty tool_name is << >>
MessageLine(m) ==
    LET UserPrefix      == << "U", "S", "E", "R" >>
        ToolOpen        == << "T", "O", "O", "L", "(" >>
        ToolClose       == << ")" >>
        UnknownTool     == << "u", "n", "k", "n", "o", "w", "n" >>
        AssistantPrefix == << "A", "S", "S", "I", "S", "T", "A", "N", "T" >>
        ColonText       == << ":", " " >>
    IN  (IF m.role = << "user" >> THEN UserPrefix
         ELSE IF m.role = << "tool" >>
              THEN ToolOpen \o (IF m.tool_name = << >> THEN UnknownTool ELSE m.tool_name)
                   \o ToolClose
         ELSE AssistantPrefix) \o ColonText \o m.content

\* lines.join("\n")
RECURSIVE JoinLines(_)
JoinLines(ls) ==
    IF ls = << >> THEN << >>
    ELSE IF Len(ls) = 1 THEN Head(ls)
    ELSE Head(ls) \o << "\n" >> \o JoinLines(Tail(ls))

\* const entryText = lines.join("\n") + "\n\n"
EntryText(e) ==
    JoinLines(<< HeaderLine(e) >> \o [ i \in 1..Len(e.messages) |-> MessageLine(e.messages[i]) ])
    \o << "\n", "\n" >>

\* faulty variant: a chunk is also flushed when it is still empty
FlushFirstAlways(current, entryText, limit) ==
    Len(current) + Len(entryText) > limit

\* faulty variant: only the entry's own length is compared with the limit
FlushFirstEntryOnly(current, entryText, limit) ==
    Len(entryText) > limit /\ Len(current) > 0

\* faulty variant: a chunk is flushed as soon as the limit is reached
FlushFirstAtLimit(current, entryText, limit) ==
    Len(current) + Len(entryText) >= limit /\ Len(current) > 0

\* currentChunk.length + entryText.length > maxChunkChars && currentChunk.length > 0
FlushFirst(current, entryText, limit) ==
    Len(current) + Len(entryText) > limit /\ Len(current) > 0

ChunkMessage(r, c) == [ role |-> << r >>, content |-> c, tool_name |-> << >> ]

ChunkEntryOf(ms) ==
    [ session_id |-> << "s" >>, user_id |-> << "u" >>, ts |-> Timestamp(D07), messages |-> ms ]

\* the entries of a day handed to chunkForAnalysis: without messages, with a
\* user message, with a tool message without tool_name, with a long reply
ChunkEntries ==
    { ChunkEntryOf(<< >>),
      ChunkEntryOf(<< ChunkMessage("user", << "a" >>) >>),
      ChunkEntryOf(<< ChunkMessage("tool", << >>) >>),
      ChunkEntryOf(<< ChunkMessage("user", << "a" >>),
                      ChunkMessage("assistant", [ i \in 1..40 |-> "x" ]) >>) }

\* values of maxChunkChars
ChunkLimits == { -1, 0, 50, 100, 108, DefaultMaxChunkChars }

\* one iteration of for (const entry of entries)
ChunkEntry ==
    /\ chunkPc = "loop"
    /\ chunkPos <= Len(chunkInput)
    /\ LET entryText == EntryText(chunkInput[chunkPos])
       IN  IF FlushFirst(currentChunk, entryText, maxChunkChars)
           THEN /\ chunks' = Append(chunks, currentChunk)
                /\ currentChunk' = entryText
           ELSE /\ chunks' = chunks
                /\ currentChunk' = currentChunk \o entryText
    /\ chunkPos' = chunkPos + 1
    /\ UNCHANGED << chunkInput, maxChunkChars, chunkPc, cmdVars, laterVars, logVars, markVars, idVars >>

\* if (currentChunk.trim()) chunks.push(currentChunk); return chunks
ChunkReturn ==
    /\ chunkPc = "loop"
    /\ chunkPos > Len(chunkInput)
    /\ chunks' = IF trim(currentChunk) # << >> THEN Append(chunks, currentChunk) ELSE chunks
    /\ chunkPc' = "done"
    /\ UNCHANGED << chunkInput, maxChunkChars, chunkPos, currentChunk,
                    cmdVars, laterVars, logVars, markVars, idVars >>

ChunkInit ==
    /\ chunkInput \in UNION { [ 1..n -> ChunkEntries ] : n \in 0..MaxEntries }
    /\ maxChunkChars \in ChunkLimits
    /\ chunkPos = 1
    /\ currentChunk = << >>
    /\ chunks = << >>
    /\ chunkPc = "loop"
    /\ CmdUnused
    /\ LogUnused
    /\ MarkUnused
    /\ IdUnused
    /\ LaterUnused

ChunkNext ==
    \/ ChunkEntry
    \/ ChunkReturn

ChunkSpec == ChunkInit /\ [][ChunkNext]_vars

RECURSIVE Concat(_)
Concat(ss) == IF ss = << >> THEN << >> ELSE Head(ss) \o Concat(Tail(ss))

\* the renderings of entries m..n of the input, concatenated
Rendered(m, n) == Concat([ i \in 1..(n - m + 1) |-> EntryText(chunkInput[m + i - 1]) ])

\* the number of entries whose renderings the first j chunks are made of, if
\* they are made of whole renderings of the first entries
EntriesIn(j) ==
    { n \in 0..Len(chunkInput) :
        Rendered(1, n) = Concat(SubSeq(chunks, 1, j)) }

\* C16: the chunks' concatenation in order equals the concatenation of the
\* entries' renderings in input order, and every chunk is the concatenation
\* of one or more whole consecutive entry renderings; empty input yields no
\* chunks.
C16_ChunksAreWholeEntries ==
    /\ Concat(chunks) \o (IF chunkPc = "loop" THEN currentChunk ELSE << >>)
          = Rendered(1, chunkPos - 1)
    /\ \A j \in DOMAIN chunks :
          /\ chunks[j] # << >>
          /\ EntriesIn(j) # { }
    /\ (chunkPc = "done" /\ chunkInput = << >>) => chunks = << >>

C16_Witness ==
    /\ chunkPc = "done"
    /\ Len(chunks) >= 2
    /\ Len(chunks) < Len(chunkInput)

\* C17: every chunk has length at most maxChunkChars unless it consists of
\* exactly one entry rendering that is itself longer than maxChunkChars.
C17_ChunkWithinLimit ==
    \A j \in DOMAIN chunks :
        \/ Len(chunks[j]) <= maxChunkChars
        \/ \E i \in DOMAIN chunkInput :
              /\ chunks[j] = EntryText(chunkInput[i])
              /\ Len(EntryText(chunkInput[i])) > maxChunkChars

C17_Witness ==
    /\ chunkPc = "done"
    /\ maxChunkChars > 0
    /\ \E j \in DOMAIN chunks : Len(chunks[j]) > maxChunkChars
    /\ \E j \in DOMAIN chunks :
          /\ Len(chunks[j]) = maxChunkChars
          /\ \A i \in DOMAIN chunkInput : chunks[j] # EntryText(chunkInput[i])

\* C29: chunkForAnalysis is greedy: for any two consecutive chunks, the
\* first chunk plus the first entry rendering of the second exceeds
\* maxChunkChars, and no returned chunk is empty; the chunk being built
\* counts as the one after the last chunk pushed.
C29_ChunksAreGreedy ==
    /\ \A j \in DOMAIN chunks : chunks[j] # << >>
    /\ \A j \in DOMAIN chunks :
          (j < Len(chunks) \/ chunkPc = "loop") =>
              /\ EntriesIn(j) # { }
              /\ \A n \in EntriesIn(j) :
                    /\ n < Len(chunkInput)
                    /\ Len(chunks[j]) + Len(EntryText(chunkInput[n + 1])) > maxChunkChars

C29_Witness ==
    /\ chunkPc = "done"
    /\ Len(chunks) = 2
    /\ Len(chunkInput) = 3
    /\ Len(chunks[1]) < maxChunkChars
    /\ Len(chunks[2]) <= maxChunkChars

----------------------------------------------------------------------------
(* The identity map on its own: addAliasToIdentityMap, buildAliasLookup    *)
(* and resolveCanonicalUserId; an entry's label plays no part in them      *)

\* user IDs: canonical IDs and aliases are drawn from the same strings
Ids == { "a", "b", "x" }

IdentityEntry(c, as) == [ canonical |-> c, aliases |-> as ]

\* the first of the indices a loop or find() matches, 0 when there is none
FirstIndex(hits) ==
    IF hits = { } THEN 0 ELSE CHOOSE i \in hits : \A j \in hits : i <= j

\* the entries whose aliases include alias
Holders(map, alias) == { i \in DOMAIN map : alias \in Range(map[i].aliases) }

\* the entries of a canonical ID
EntriesOfId(map, canonical) == { i \in DOMAIN map : map[i].canonical = canonical }

\* faulty variant: the alias is not removed from the entry that holds it
addAliasKeepsOwner(map, canonical, alias) ==
    LET found0 == FirstIndex(EntriesOfId(map, canonical))
        m2 == IF found0 = 0 THEN Append(map, IdentityEntry(canonical, << >>)) ELSE map
        target == IF found0 = 0 THEN Len(m2) ELSE found0
    IN  IF alias \notin Range(m2[target].aliases)
        THEN [ map |-> [ m2 EXCEPT ![target].aliases = Append(@, alias) ], added |-> TRUE ]
        ELSE [ map |-> m2, added |-> FALSE ]

\* faulty variant: the alias is pushed without looking for it
addAliasAlwaysPush(map, canonical, alias) ==
    LET owner == FirstIndex(Holders(map, alias))
        m1 == IF owner # 0 /\ map[owner].canonical # canonical
              THEN [ map EXCEPT ![owner].aliases = SelectSeq(@, LAMBDA a : a # alias) ]
              ELSE map
        found0 == FirstIndex(EntriesOfId(m1, canonical))
        m2 == IF found0 = 0 THEN Append(m1, IdentityEntry(canonical, << >>)) ELSE m1
        target == IF found0 = 0 THEN Len(m2) ELSE found0
    IN  [ map |-> [ m2 EXCEPT ![target].aliases = Append(@, alias) ], added |-> TRUE ]

\* faulty variant: an entry whose last alias is moved away is deleted
addAliasDropsEmptied(map, canonical, alias) ==
    LET owner == FirstIndex(Holders(map, alias))
    IN  IF owner # 0 /\ map[owner].canonical = canonical
        THEN [ map |-> map, added |-> FALSE ]
        ELSE LET m0 == IF owner # 0
                       THEN [ map EXCEPT ![owner].aliases =
                                SelectSeq(@, LAMBDA a : a # alias) ]
                       ELSE map
                 m1 == SelectSeq(m0, LAMBDA en : en.aliases # << >>
                                                   \/ en.canonical = canonical
                                                   \/ en \in Range(map))
                 found0 == FirstIndex(EntriesOfId(m1, canonical))
                 m2 == IF found0 = 0 THEN Append(m1, IdentityEntry(canonical, << >>))
                       ELSE m1
                 target == IF found0 = 0 THEN Len(m2) ELSE found0
             IN  IF alias \notin Range(m2[target].aliases)
                 THEN [ map |-> [ m2 EXCEPT ![target].aliases = Append(@, alias) ],
                        added |-> TRUE ]
                 ELSE [ map |-> m2, added |-> FALSE ]

\* addAliasToIdentityMap(map, canonical, alias): the map it leaves and added
addAliasToIdentityMap(map, canonical, alias) ==
    LET owner == FirstIndex(Holders(map, alias))
    IN  IF owner # 0 /\ map[owner].canonical = canonical
        THEN [ map |-> map, added |-> FALSE ]
        ELSE LET m1 == IF owner # 0
                       THEN [ map EXCEPT ![owner].aliases =
                                SelectSeq(@, LAMBDA a : a # alias) ]
                       ELSE map
                 found0 == FirstIndex(EntriesOfId(m1, canonical))
                 m2 == IF found0 = 0 THEN Append(m1, IdentityEntry(canonical, << >>))
                       ELSE m1
                 target == IF found0 = 0 THEN Len(m2) ELSE found0
             IN  IF alias \notin Range(m2[target].aliases)
                 THEN [ map |-> [ m2 EXCEPT ![target].aliases = Append(@, alias) ],
                        added |-> TRUE ]
                 ELSE [ map |-> m2, added |-> FALSE ]

\* the lookup.set(key, value) calls of buildAliasLookup, in order
RECURSIVE LookupSets(_)
LookupSets(map) ==
    IF map = << >> THEN << >>
    ELSE [ i \in 1..Len(Head(map).aliases) |->
             << Head(map).aliases[i], Head(map).canonical >> ]
         \o << << Head(map).canonical, Head(map).canonical >> >>
         \o LookupSets(Tail(map))

\* buildAliasLookup(identityMap): each key holds the value set last
buildAliasLookup(map) ==
    LET sets == LookupSets(map)
        keys == { sets[i][1] : i \in DOMAIN sets }
    IN  [ k \in keys |->
            sets[CHOOSE i \in DOMAIN sets :
                    /\ sets[i][1] = k
                    /\ \A j \in DOMAIN sets : sets[j][1] = k => j <= i][2] ]

\* resolveCanonicalUserId(rawId, aliasLookup): aliasLookup.get(rawId) ?? rawId
resolveCanonicalUserId(rawId, aliasLookup) ==
    IF rawId \in DOMAIN aliasLookup THEN aliasLookup[rawId] ELSE rawId

\* the number of times alias occurs in the aliases of the entries whose
\* canonical ID is one of cs
Occurrences(map, alias, cs) ==
    Cardinality({ << i, k >> \in (DOMAIN map) \X (1..Cardinality(Ids) + 1) :
                    /\ map[i].canonical \in cs
                    /\ k \in DOMAIN map[i].aliases
                    /\ map[i].aliases[k] = alias })

\* each alias string occurs at most once in the whole map
AliasesUnique(map) ==
    \A id \in Ids : Occurrences(map, id, Ids) <= 1

\* identity-map.json files as loadIdentityMap accepts them (identities is an
\* array): an alias held twice, an alias held by two entries, a canonical ID
\* with two entries
LoadedMaps ==
    { << IdentityEntry("a", << "x", "x" >>) >>,
      << IdentityEntry("b", << "x" >>), IdentityEntry("x", << "x" >>) >>,
      << IdentityEntry("a", << >>), IdentityEntry("a", << "x" >>) >> }

NoCall == [ called |-> FALSE, op |-> "none", canonical |-> "", alias |-> "",
            firstUnique |-> TRUE ]

\* loadIdentityMap(path) at start-up
LoadIdentityMap ==
    /\ idMap = << >>
    /\ ~idLoaded
    /\ ~idCall.called
    /\ idMap' \in LoadedMaps
    /\ idLoaded' = TRUE
    /\ UNCHANGED << idCall, cmdVars, laterVars, logVars, markVars, chunkVars >>

\* addAliasToIdentityMap(map, c, a), mutating the map in place
AddAlias ==
    /\ \E c \in Ids, a \in Ids :
          LET r == addAliasToIdentityMap(idMap, c, a)
              again == /\ idCall.op = "add"
                       /\ idCall.canonical = c
                       /\ idCall.alias = a
          IN  /\ idMap' = r.map
              /\ idCall' = [ called |-> TRUE, op |-> "add", canonical |-> c, alias |-> a,
                             added |-> r.added, before |-> idMap, repeat |-> again,
                             firstUnique |-> IF again THEN idCall.firstUnique
                                             ELSE AliasesUnique(idMap) ]
    /\ UNCHANGED << idLoaded, cmdVars, laterVars, logVars, markVars, chunkVars >>

\* resolveCanonicalUserId(rawId, buildAliasLookup(map))
Resolve ==
    /\ \E rawId \in Ids \cup { "unknown" } :
          idCall' = [ called |-> TRUE, op |-> "resolve", canonical |-> "", alias |-> rawId,
                      result |-> resolveCanonicalUserId(rawId, buildAliasLookup(idMap)),
                      firstUnique |-> TRUE ]
    /\ UNCHANGED << idMap, idLoaded, cmdVars, laterVars, logVars, markVars, chunkVars >>

IdInit ==
    /\ idMap = << >>
    /\ idCall = NoCall
    /\ idLoaded = FALSE
    /\ CmdUnused
    /\ LogUnused
    /\ MarkUnused
    /\ ChunkUnused
    /\ LaterUnused

IdNext ==
    \/ LoadIdentityMap
    \/ AddAlias
    \/ Resolve

IdSpec == IdInit /\ [][IdNext]_vars

\* C18: starting from the empty identity map, after any sequence of
\* addAliasToIdentityMap calls every alias string occurs in the aliases of at
\* most one entry, and occurs there at most once.
C18_AliasUnique ==
    ~idLoaded => AliasesUnique(idMap)

C18_Witness ==
    /\ ~idLoaded
    /\ idCall.op = "add"
    /\ idCall.added
    /\ \E i \in DOMAIN idCall.before :
          /\ idCall.before[i].canonical # idCall.canonical
          /\ idCall.alias \in Range(idCall.before[i].aliases)
    /\ \E i \in DOMAIN idMap : Len(idMap[i].aliases) >= 2

\* C19: for every identity map reachable from the empty map by
\* addAliasToIdentityMap calls, with lookup = buildAliasLookup(map):
\* resolveCanonicalUserId maps every alias of every entry to that entry's
\* canonical ID, every canonical ID to itself, and every ID that is neither
\* an alias nor a canonical ID to itself.
C19_LookupResolves ==
    ~idLoaded =>
        LET lookup == buildAliasLookup(idMap)
            known == UNION { Range(idMap[i].aliases) \cup { idMap[i].canonical } :
                               i \in DOMAIN idMap }
        IN  /\ \A i \in DOMAIN idMap :
                  /\ \A a \in Range(idMap[i].aliases) :
                        resolveCanonicalUserId(a, lookup) = idMap[i].canonical
                  /\ resolveCanonicalUserId(idMap[i].canonical, lookup) = idMap[i].canonical
            /\ \A id \in (Ids \cup { "unknown" }) \ known :
                  resolveCanonicalUserId(id, lookup) = id

\* the second of two consecutive calls with the same pair changed nothing
RepeatIsNoOp ==
    /\ ~idCall.added
    /\ idMap = idCall.before
    /\ Occurrences(idMap, idCall.alias, { idCall.canonical }) = 1

\* C20 (as stated): for every map, canonical A and alias X, a second call
\* with the same (A, X) immediately after the first returns added=false and
\* leaves the map exactly as the first call left it, with exactly one
\* occurrence of X under A.
C20_AddAliasIdempotent ==
    (idCall.op = "add" /\ idCall.repeat) => RepeatIsNoOp

\* C20 (amended): the same, for every map in which each alias string occurs
\* at most once.
C20_AddAliasIdempotentOnUniqueMaps ==
    (idCall.op = "add" /\ idCall.repeat /\ idCall.firstUnique) => RepeatIsNoOp

C20_Witness ==
    /\ idCall.op = "add"
    /\ idCall.repeat
    /\ idCall.firstUnique
    /\ Len(idMap) >= 2
    /\ \E i \in DOMAIN idMap : idMap[i].aliases = << >>

----------------------------------------------------------------------------
(* resolveUserId and simpleHash on their own.  A session key is the        *)
(* sequence of its characters; a provider name is never looked into and is *)
(* one element.  An optional field is << >> when undefined and << s >>     *)
(* when it holds the string s                                              *)

MaxKeyLen == 5

\* String.prototype.charCodeAt for the characters the session keys are made of
charCodeAt ==
    [ c \in { "a", "e", "g", "m", "n", "t", "x", "1", ":" } |->
        CASE c = "a" -> 97  [] c = "e" -> 101 [] c = "g" -> 103
          [] c = "m" -> 109 [] c = "n" -> 110 [] c = "t" -> 116
          [] c = "x" -> 120 [] c = "1" -> 49  [] c = ":" -> 58 ]

\* Number.prototype.toString(16) of a number 0 .. 2^32 - 1 given as its two
\* 16-bit halves: lowercase digits, no leading zeros
toString16(u) ==
    LET digit == << "0", "1", "2", "3", "4", "5", "6", "7",
                    "8", "9", "a", "b", "c", "d", "e", "f" >>
        hex4(n) == << digit[(n \div 4096) + 1], digit[((n \div 256) % 16) + 1],
                      digit[((n \div 16) % 16) + 1], digit[(n % 16) + 1] >>
        all == hex4(u.hi) \o hex4(u.lo)
        nz == { i \in 1..8 : all[i] # "0" }
    IN  IF nz = { } THEN << "0" >>
        ELSE SubSeq(all, CHOOSE i \in nz : \A j \in nz : i <= j, 8)

\* faulty variant: the digits are returned as toString gives them
padStartNothing(s, n, fill) == s

\* String.prototype.padStart(n, fill) for a one-character fill
padStart(s, n, fill) ==
    IF Len(s) >= n THEN s ELSE [ i \in 1..(n - Len(s)) |-> fill ] \o s

\* simpleHash(str).  hash is a 32-bit integer, kept as its two 16-bit halves
\* [hi, lo] so that no intermediate value leaves the integers of the model
\* checker.  (hash << 5) - hash + char is 31 * hash + char, of which the
\* shift and hash & hash keep the low 32 bits; Math.abs negates a hash whose
\* sign bit is set (-2^31 becomes 2^31, which a Number holds).
simpleHash(str) ==
    LET step(h, char) ==
            LET lo == (h.lo * 31) + char
                hi == (h.hi * 31) + (lo \div 65536)
            IN  [ hi |-> hi % 65536, lo |-> lo % 65536 ]
        RECURSIVE loop(_, _)
        loop(i, hash) ==
            IF i > Len(str) THEN hash
            ELSE loop(i + 1, step(hash, charCodeAt[str[i]]))
        abs(h) ==
            IF h.hi >= 32768
            THEN [ hi |-> (65535 - h.hi + (IF h.lo = 0 THEN 1 ELSE 0)) % 65536,
                   lo |-> (65536 - h.lo) % 65536 ]
            ELSE h
        padded == padStart(toString16(abs(loop(1, [ hi |-> 0, lo |-> 0 ]))), 8, "0")
    IN  SubSeq(padded, 1, IF Len(padded) < 8 THEN Len(padded) ELSE 8)

\* Array.prototype.join(sep)
RECURSIVE join(_, _)
join(parts, sep) ==
    IF parts = << >> THEN << >>
    ELSE IF Len(parts) = 1 THEN Head(parts)
    ELSE Head(parts) \o << sep >> \o join(Tail(parts), sep)

\* faulty variant: the peer is the fourth part only
PeerPartFourthOnly(sessionParts) == sessionParts[4]

\* const peerPart = sessionParts.slice(3).join(":")
PeerPart(sessionParts) == join(SubSeq(sessionParts, 4, Len(sessionParts)), ":")

\* resolveUserId(ctx)
resolveUserId(c) ==
    LET sessionKey == IF c.sessionKey # << >> THEN c.sessionKey[1] ELSE << >>
        provider == IF c.messageProvider # << >> THEN c.messageProvider[1]
                    ELSE IF c.messageChannel # << >> THEN c.messageChannel[1]
                    ELSE << >>
        sessionParts == split(sessionKey, ":")
    IN  IF /\ Len(sessionParts) >= 4
           /\ sessionParts[3] # << >>
           /\ PeerPart(sessionParts) # << >>
        THEN sessionParts[3] \o << ":" >> \o PeerPart(sessionParts)
        ELSE IF provider # << >> /\ sessionKey # << >>
        THEN provider \o << ":" >> \o simpleHash(sessionKey)
        ELSE IF sessionKey # << >>
        THEN << "session", ":" >> \o simpleHash(sessionKey)
        ELSE << "default" >>

\* session keys: with the agent prefix, with another first part, with no
\* prefix, the rest being any text of colons and two other characters; and
\* a key whose hash is -2^31
SessionKeys ==
    LET texts == UNION { [ 1..k -> { ":", "m", "1" } ] : k \in 0..MaxKeyLen }
        prefixes == { << >>, << "a", "g", "e", "n", "t", ":" >>, << "x", ":" >> }
    IN  { pre \o body : pre \in prefixes, body \in texts } \cup
        { << "e", "g", "m", "m", "g", "x", "x", "m", "m", "e" >> }

\* hook and tool contexts: an absent, empty or non-empty session key, an
\* absent, empty or non-empty messageProvider, an absent or present
\* messageChannel
Contexts ==
    [ sessionKey : { << >> } \cup { << k >> : k \in SessionKeys },
      messageProvider : { << >>, << << >> >>, << << "telegram" >> >> },
      messageChannel : { << >>, << << "discord" >> >> } ]

\* a call resolveUserId(ctx)
ResolveUserId ==
    /\ ~userId.done
    /\ userId' = [ done |-> TRUE, op |-> "resolveUserId", value |-> resolveUserId(ctx) ]
    /\ UNCHANGED << ctx, cmdVars, logVars, markVars, chunkVars, idVars, captureVars, searchCall, parseVars, restVars >>

\* a call simpleHash(sessionKey), and the same call once more
SimpleHash ==
    /\ ctx.sessionKey # << >>
    /\ \/ ~userId.done
       \/ userId.op = "simpleHash" /\ userId.calls = 1
    /\ userId' = [ done |-> TRUE, op |-> "simpleHash",
                   value |-> simpleHash(ctx.sessionKey[1]),
                   calls |-> IF userId.done THEN 2 ELSE 1,
                   before |-> IF userId.done THEN userId.value ELSE << >> ]
    /\ UNCHANGED << ctx, cmdVars, logVars, markVars, chunkVars, idVars, captureVars, searchCall, parseVars, restVars >>

UserIdInit ==
    /\ ctx \in Contexts
    /\ userId = [ done |-> FALSE, op |-> "none" ]
    /\ CmdUnused
    /\ LogUnused
    /\ MarkUnused
    /\ ChunkUnused
    /\ IdUnused
    /\ CaptureUnused
    /\ SearchUnused
    /\ ParseUnused
    /\ RestUnused

UserIdNext ==
    \/ ResolveUserId
    \/ SimpleHash

UserIdSpec == UserIdInit /\ [][UserIdNext]_vars

\* the session key of the context, "" when there is none
KeyOf(c) == IF c.sessionKey # << >> THEN c.sessionKey[1] ELSE << >>

\* the places << i, j >> of the second and third colon of a key that reads
\* agent:<a>:<p>:<rest> with non-empty p and rest (at most one such pair)
AgentPattern(key) ==
    { ij \in (DOMAIN key) \X (DOMAIN key) :
        /\ Len(key) >= 6
        /\ SubSeq(key, 1, 6) = << "a", "g", "e", "n", "t", ":" >>
        /\ 6 < ij[1]
        /\ ij[1] + 1 < ij[2]
        /\ ij[2] < Len(key)
        /\ key[ij[1]] = ":"
        /\ key[ij[2]] = ":"
        /\ \A k \in 7..(ij[2] - 1) : k # ij[1] => key[k] # ":" }

\* C21: for every session key of the form agent:<a>:<p>:<rest> with
\* non-empty p and rest, resolveUserId returns exactly <p>:<rest>, rest being
\* everything after the third colon, whatever the provider and channel
\* fields of the context are.
C21_PatternGivesProviderAndPeer ==
    (userId.done /\ userId.op = "resolveUserId") =>
        \A ij \in AgentPattern(KeyOf(ctx)) :
            userId.value = SubSeq(KeyOf(ctx), ij[1] + 1, Len(KeyOf(ctx)))

C21_Witness ==
    /\ userId.done
    /\ userId.op = "resolveUserId"
    /\ ctx.messageProvider = << << "telegram" >> >>
    /\ \E ij \in AgentPattern(KeyOf(ctx)) :
          /\ ij[1] > 7
          /\ \E k \in (ij[2] + 1)..Len(KeyOf(ctx)) : KeyOf(ctx)[k] = ":"

\* C22 (as stated): for every context whose session key does not match the
\* pattern agent:<agentId>:<channelProvider>:<peerId...>, resolveUserId
\* returns <provider>:<simpleHash(sessionKey)> when a provider and a session
\* key are both present, else session:<simpleHash(sessionKey)> when a session
\* key is present, else "default"; messageProvider goes before messageChannel.
C22_FallbackOutsidePattern ==
    (userId.done /\ userId.op = "resolveUserId" /\ AgentPattern(KeyOf(ctx)) = { }) =>
        LET key == KeyOf(ctx)
            provider == IF ctx.messageProvider # << >> THEN ctx.messageProvider[1]
                        ELSE IF ctx.messageChannel # << >> THEN ctx.messageChannel[1]
                        ELSE << >>
        IN  userId.value =
                IF provider # << >> /\ key # << >>
                THEN provider \o << ":" >> \o simpleHash(key)
                ELSE IF key # << >> THEN << "session", ":" >> \o simpleHash(key)
                ELSE << "default" >>

\* C23: for every input string simpleHash returns exactly 8 characters, each
\* in 0-9a-f, and a second call with the same input returns the same string.
C23_HashIsEightHexChars ==
    (userId.done /\ userId.op = "simpleHash") =>
        /\ Len(userId.value) = 8
        /\ \A i \in DOMAIN userId.value :
              userId.value[i] \in { "0", "1", "2", "3", "4", "5", "6", "7",
                                    "8", "9", "a", "b", "c", "d", "e", "f" }
        /\ userId.calls = 2 => userId.value = userId.before

\* the hash -2^31, whose magnitude takes all 8 digits
C23_Witness ==
    /\ userId.done
    /\ userId.op = "simpleHash"
    /\ userId.calls = 2
    /\ KeyOf(ctx) = << "e", "g", "m", "m", "g", "x", "x", "m", "m", "e" >>
    /\ userId.value = << "8", "0", "0", "0", "0", "0", "0", "0" >>

----------------------------------------------------------------------------
(* The capture path on its own: cleanMessages, buildLogEntry and the       *)
(* agent_end hook that appends to the daily log.  Message texts are        *)
(* sequences of characters; a role or a tool name is one piece             *)

MaxRaw == 2

\* String.prototype.includes(piece)
includesAtStart(text, piece) ==
    Len(text) >= Len(piece) /\ SubSeq(text, 1, Len(piece)) = piece

includes(text, piece) ==
    \E i \in 0..(Len(text) - Len(piece)) : SubSeq(text, i + 1, i + Len(piece)) = piece

\* textContent.replace(/data:[a-zA-Z]+\/[a-zA-Z]+;base64,[A-Za-z0-9+/=]{100,}/g,
\* "[base64-data]"): matches are taken from left to right, each as long as
\* it can be
RECURSIVE replaceBase64(_)
replaceBase64(s) ==
    LET letter == { "a", "b", "c", "d", "e", "f", "g", "h", "i", "j", "k", "l", "m",
                    "n", "o", "p", "q", "r", "s", "t", "u", "v", "w", "x", "y", "z",
                    "A", "B", "C", "D", "E", "F", "G", "H", "I", "J", "K", "L", "M",
                    "N", "O", "P", "Q", "R", "S", "T", "U", "V", "W", "X", "Y", "Z" }
        base64 == letter \cup Digits \cup { "+", "/", "=" }
        \* the first place from i on whose character is not in class
        stop(i, class) ==
            LET out == { j \in i..Len(s) : s[j] \notin class }
            IN  IF out = { } THEN Len(s) + 1 ELSE CHOOSE j \in out : \A k \in out : j <= k
        literal(i, piece) ==
            i + Len(piece) - 1 <= Len(s) /\ SubSeq(s, i, i + Len(piece) - 1) = piece
        \* the place after the match that starts at i, 0 when none starts there
        match(i) ==
            IF ~literal(i, << "d", "a", "t", "a", ":" >>) THEN 0
            ELSE LET slash == stop(i + 5, letter)
                 IN  IF slash = i + 5 \/ ~literal(slash, << "/" >>) THEN 0
                     ELSE LET semi == stop(slash + 1, letter)
                          IN  IF semi = slash + 1 \/ ~literal(semi, << ";", "b", "a", "s", "e", "6", "4", "," >>) THEN 0
                              ELSE LET end == stop(semi + 8, base64)
                                   IN  IF end - (semi + 8) >= 100 THEN end ELSE 0
        starts == { i \in DOMAIN s : s[i] = "d" /\ match(i) > 0 }
    IN  IF starts = { } THEN s
        ELSE LET first == CHOOSE i \in starts : \A k \in starts : i <= k
             IN  SubSeq(s, 1, first - 1) \o << "[", "b", "a", "s", "e", "6", "4", "-", "d", "a", "t", "a", "]" >>
                 \o replaceBase64(SubSeq(s, match(first), Len(s)))

\* the text cleanMessages gathers from msg.content: a string as it is, the
\* text and image blocks of an array joined by newlines, "" for anything else
RECURSIVE BlockText(_, _)
BlockText(blocks, textContent) ==
    IF blocks = << >> THEN textContent
    ELSE LET b == Head(blocks)
             sep == IF textContent # << >> THEN << "\n" >> ELSE << >>
         IN  BlockText(Tail(blocks),
                 IF b.type = "text" /\ b.text.kind = "string"
                 THEN textContent \o sep \o b.text.text
                 ELSE IF b.type \in { "image_url", "image" }
                 THEN textContent \o sep \o << "[", "i", "m", "a", "g", "e", "]" >>
                 ELSE textContent)

\* faulty variant: tool_name is taken from any message with a string name
ToolNameOfAny(msg, entry) ==
    IF msg.name.kind = "string"
    THEN [ role |-> entry.role, content |-> entry.content, tool_name |-> msg.name.text ]
    ELSE entry

\* if (role === "tool" && typeof msg.name === "string") entry.tool_name = msg.name
ToolNameOf(msg, entry) ==
    IF msg.role = "tool" /\ msg.name.kind = "string"
    THEN [ role |-> entry.role, content |-> entry.content, tool_name |-> msg.name.text ]
    ELSE entry

\* cleanMessages(messages, maxToolResultChars)
RECURSIVE cleanMessages(_, _)
cleanMessages(messages, maxToolResultChars) ==
    IF messages = << >> THEN << >>
    ELSE LET msg == Head(messages)
             rest == cleanMessages(Tail(messages), maxToolResultChars)
         IN  IF msg.kind # "object" THEN rest
             ELSE IF msg.role = "" THEN rest
             ELSE IF msg.role = "system" THEN rest
             ELSE LET textContent ==
                          IF msg.content.kind = "string" THEN msg.content.text
                          ELSE IF msg.content.kind = "array"
                          THEN BlockText(msg.content.blocks, << >>)
                          ELSE << >>
                  IN  IF textContent = << >> THEN rest
                      ELSE IF includes(textContent, 
                                       << "<", "r", "e", "l", "e", "v", "a", "n", "t", "-", "m", "e", "m", "o", "r", "i", "e", "s", ">" >>)
                      THEN rest
                      ELSE LET stripped == replaceBase64(textContent)
                               cut == IF maxToolResultChars < 0 THEN 0
                                      ELSE maxToolResultChars
                               truncated ==
                                   IF msg.role = "tool" /\ Len(stripped) > maxToolResultChars
                                   THEN SubSeq(stripped, 1, cut) \o << " ", "[", "t", "r", "u", "n", "c", "a", "t", "e", "d", "]" >>
                                   ELSE stripped
                               cleanRole == IF msg.role = "user" THEN "user"
                                            ELSE IF msg.role = "tool" THEN "tool"
                                            ELSE "assistant"
                           IN  << ToolNameOf(msg, [ role |-> cleanRole,
                                                    content |-> truncated ]) >> \o rest

\* faulty variant: an entry is built whatever was left
buildLogEntryAlways(messages, uid, channel, sessionId, now) ==
    << [ ts |-> now, user_id |-> uid, channel |-> channel,
         session_id |-> sessionId, messages |-> cleanMessages(messages, 500) ] >>

\* buildLogEntry(messages, userId, channel, sessionId) with uid for userId, now being
\* new Date().toISOString(); << >> is null, << e >> the entry e
buildLogEntry(messages, uid, channel, sessionId, now) ==
    LET cleanedMessages == cleanMessages(messages, 500)
    IN  IF Len(cleanedMessages) = 0 THEN << >>
        ELSE << [ ts |-> now, user_id |-> uid, channel |-> channel,
                  session_id |-> sessionId, messages |-> cleanedMessages ] >>

\* raw messages of an agent_end event: a null, a message without role, a
\* system prompt, plain user text, a user message with a name, an assistant
\* message of blocks (text, image, null, text that is no string, another
\* type), a tool result with a name, a tool result with a data URI one
\* character too short and a name that is no string, user text holding the
\* marker, blocks whose texts are the two halves of the marker, text in which
\* a data URI stands between the two halves, a data URI from another role,
\* empty text, blocks with nothing to take
RawShapes ==
    LET none == [ kind |-> "other", text |-> << >> ]
        str(s) == [ kind |-> "string", text |-> s ]
        text(s) == [ kind |-> "string", text |-> s, blocks |-> << >> ]
        array(bs) == [ kind |-> "array", text |-> << >>, blocks |-> bs ]
        block(ty, tx) == [ type |-> ty, text |-> tx ]
        msg(r, c, n) == [ kind |-> "object", role |-> r, content |-> c, name |-> n ]
        uri(n) == << "d", "a", "t", "a", ":", "a", "/", "b", ";", "b", "a", "s", "e", "6", "4", "," >> \o [ i \in 1..n |-> "A" ]
    IN  { [ kind |-> "null", role |-> "", content |-> text(<< >>), name |-> none ],
          msg("", text(<< "h", "i" >>), none),
          msg("system", text(<< "h", "i" >>), none),
          msg("user", text(<< "h", "i" >>), none),
          msg("user", text(<< "y", "o" >>), str(<< "bob" >>)),
          msg("assistant",
              array(<< block("text", str(<< "a" >>)), block("image", none),
                       block("null", none), block("text", none),
                       block("audio", none), block("text", str(<< "b" >>)),
                       block("image_url", none) >>), none),
          msg("tool", text(<< "h", "e", "l", "l", "o" >>), str(<< "search" >>)),
          msg("tool", text(uri(99)), none),
          msg("user", text(<< "a" >> \o << "<", "r", "e", "l", "e", "v", "a", "n", "t", "-", "m", "e", "m", "o", "r", "i", "e", "s", ">" >>), none),
          msg("assistant",
              array(<< block("text", str(<< "<", "r", "e", "l", "e", "v", "a", "n", "t", "-" >>)), block("text", str(<< "m", "e", "m", "o", "r", "i", "e", "s", ">" >>)) >>), none),
          msg("user", text(<< "<", "r", "e", "l", "e", "v", "a", "n", "t", "-" >> \o uri(100) \o << "m", "e", "m", "o", "r", "i", "e", "s", ">" >>), none),
          msg("developer", text(uri(101) \o << " " >> \o uri(100)), none),
          msg("user", text(<< >>), none),
          msg("user", array(<< block("audio", none) >>), none) }

\* cleanMessages(messages, maxToolResultChars) on its own, 500 being the
\* default
CleanMessages ==
    /\ ~cleanCall.called
    /\ captureLog.events = 0
    /\ \E max \in { 0, 3, 500 } :
          cleanCall' = [ called |-> TRUE, max |-> max,
                         result |-> cleanMessages(rawMessages, max) ]
    /\ UNCHANGED << rawMessages, captureLog, cmdVars, logVars, markVars, chunkVars,
                    idVars, uidVars, searchCall, parseVars, restVars >>

\* the agent_end hook with sleep mode enabled: buildLogEntry, and appendToLog
\* when it returned an entry; entries is what appendToLog has been given
AgentEnd ==
    /\ ~cleanCall.called
    /\ captureLog.events < MaxWrites
    /\ LET logEntry == buildLogEntry(rawMessages, << "u" >>, << "c" >>, << "s" >>,
                                    Timestamp(today))
       IN  captureLog' = [ events |-> captureLog.events + 1,
                           returned |-> logEntry,
                           entries |-> IF logEntry # << >>
                                       THEN Append(captureLog.entries, logEntry[1])
                                       ELSE captureLog.entries ]
    /\ UNCHANGED << rawMessages, cleanCall, cmdVars, logVars, markVars, chunkVars,
                    idVars, uidVars, searchCall, parseVars, restVars >>

CaptureInit ==
    /\ rawMessages \in UNION { [ 1..n -> RawShapes ] : n \in 0..MaxRaw }
    /\ cleanCall = [ called |-> FALSE ]
    /\ captureLog = [ events |-> 0, entries |-> << >> ]
    /\ CmdUnused
    /\ LogUnused
    /\ MarkUnused
    /\ ChunkUnused
    /\ IdUnused
    /\ UidUnused
    /\ SearchUnused
    /\ ParseUnused
    /\ RestUnused

CaptureNext ==
    \/ CleanMessages
    \/ AgentEnd

CaptureSpec == CaptureInit /\ [][CaptureNext]_vars

\* a cleaned message can have come from this raw message
CleanedFrom(msg, out) ==
    /\ msg.kind = "object"
    /\ msg.role \notin { "", "system" }
    /\ (out.role = "user") <=> (msg.role = "user")
    /\ (out.role = "tool") <=> (msg.role = "tool")
    /\ "tool_name" \in DOMAIN out =>
          msg.name = [ kind |-> "string", text |-> out.tool_name ]

\* C24: for every raw message sequence, the output of cleanMessages is an
\* order-preserving selection of the input in which every message has a role
\* in {user, assistant, tool} and non-empty content that does not contain the
\* marker <relevant-memories>, no message comes from a system-role input, and
\* tool_name is present only on tool-role messages.
C24_CleanedAreSelected ==
    cleanCall.called =>
        LET out == cleanCall.result
            marker == << "<", "r", "e", "l", "e", "v", "a", "n", "t", "-", "m", "e", "m", "o", "r", "i", "e", "s", ">" >>
        IN  /\ \A k \in DOMAIN out :
                  /\ out[k].role \in { "user", "assistant", "tool" }
                  /\ out[k].content # << >>
                  /\ \A i \in DOMAIN out[k].content :
                        \/ out[k].content[i] # "<"
                        \/ i + Len(marker) - 1 > Len(out[k].content)
                        \/ SubSeq(out[k].content, i, i + Len(marker) - 1) # marker
                  /\ "tool_name" \in DOMAIN out[k] => out[k].role = "tool"
            /\ \E sel \in SUBSET (DOMAIN rawMessages) :
                  /\ Cardinality(sel) = Len(out)
                  /\ \A k \in DOMAIN out :
                        CleanedFrom(rawMessages[CHOOSE i \in sel :
                                        Cardinality({ j \in sel : j <= i }) = k], out[k])

\* a system prompt is dropped and a named tool result is kept, cut short
C24_Witness ==
    /\ cleanCall.called
    /\ Len(rawMessages) = 2
    /\ rawMessages[1].kind = "object"
    /\ rawMessages[1].role = "system"
    /\ Len(cleanCall.result) = 1
    /\ "tool_name" \in DOMAIN cleanCall.result[1]
    /\ Len(cleanCall.result[1].content) = cleanCall.max + Len(<< " ", "[", "t", "r", "u", "n", "c", "a", "t", "e", "d", "]" >>)

\* C25: buildLogEntry returns null exactly when cleanMessages leaves zero
\* messages; so every entry the agent_end hook hands to appendToLog has at
\* least one message.
C25_EntryHasMessages ==
    /\ captureLog.events > 0 =>
          ((captureLog.returned = << >>) <=> (cleanMessages(rawMessages, 500) = << >>))
    /\ \A i \in DOMAIN captureLog.entries : Len(captureLog.entries[i].messages) >= 1

C25_Witness ==
    /\ captureLog.events >= 2
    /\ Len(captureLog.entries) = captureLog.events
    /\ Len(rawMessages) = 2
    /\ Len(captureLog.entries[1].messages) = 1
    /\ captureLog.entries[1].messages[1].role = "assistant"

----------------------------------------------------------------------------
(* searchLogs on its own, on the text of the daily logs                    *)

MaxLimit == 3

\* String.prototype.toLowerCase for the letters of the model's texts
toLowerCase(s) ==
    [ i \in DOMAIN s |-> IF s[i] = "A" THEN "a" ELSE IF s[i] = "B" THEN "b" ELSE s[i] ]

\* the context snippet around the first match of queryLower in content
matchContext(content, queryLower) ==
    LET lower == toLowerCase(content)
        n == Len(queryLower)
        hit == (CHOOSE i \in 0..(Len(lower) - n) :
                  /\ SubSeq(lower, i + 1, i + n) = queryLower
                  /\ \A j \in 0..(i - 1) : SubSeq(lower, j + 1, j + n) # queryLower)
        from == IF hit - 100 > 0 THEN hit - 100 ELSE 0
        upto == IF hit + n + 100 < Len(content) THEN hit + n + 100 ELSE Len(content)
    IN  (IF from > 0 THEN << ".", ".", "." >> ELSE << >>)
        \o SubSeq(content, from + 1, upto)
        \o (IF upto < Len(content) THEN << ".", ".", "." >> ELSE << >>)

\* the loops of searchLogs over the entries of the files, read in turn: the
\* result is the array returned, or the TypeError raised by entry.messages
\* of a line that parsed to something other than an entry; at is the file
\* and place an entry was read from
RECURSIVE SearchLoop(_, _, _, _, _)
SearchLoop(items, i, queryLower, limit, results) ==
    IF i > Len(items) \/ Len(results) >= limit
    THEN [ ok |-> TRUE, results |-> results ]
    ELSE LET entry == items[i].entry
         IN  IF "messages" \notin DOMAIN entry THEN [ ok |-> FALSE, results |-> << >> ]
             ELSE LET hits == { m \in DOMAIN entry.messages :
                                  includes(toLowerCase(entry.messages[m].content),
                                           queryLower) }
                  IN  IF hits = { } THEN SearchLoop(items, i + 1, queryLower, limit, results)
                      ELSE SearchLoop(items, i + 1, queryLower, limit,
                               Append(results,
                                   [ entry |-> entry, at |-> items[i].at,
                                     matchContext |->
                                         matchContext(entry.messages[
                                             CHOOSE m \in hits :
                                                 \A o \in hits : m <= o].content,
                                             queryLower) ]))

\* searchLogs(logDir, query, dateFrom, dateTo, limit): dir maps each date to
\* its file <date>.jsonl, an optional bound is << >> or << date >>
searchLogs(dirExists, dir, query, dateFrom, dateTo, limit) ==
    IF ~dirExists THEN [ ok |-> TRUE, results |-> << >> ]
    ELSE
    LET kept == { d \in DOMAIN dir :
                    /\ dir[d].exists
                    /\ ~(dateFrom # << >> /\ dateFrom[1] # << >> /\ StrLess(d, dateFrom[1]))
                    /\ ~(dateTo # << >> /\ dateTo[1] # << >> /\ StrLess(dateTo[1], d)) }
        \* sort((a, b) => b.date.localeCompare(a.date))
        sorted == [ k \in 1..Cardinality(kept) |->
                      CHOOSE d \in kept : Cardinality({ e \in kept : StrLess(d, e) }) = k - 1 ]
        RECURSIVE scan(_)
        scan(k) ==
            IF k > Len(sorted) THEN << >>
            ELSE LET read == readDailyLog(Lines(dir[sorted[k]]))
                 IN  [ i \in DOMAIN read |->
                         [ entry |-> read[i], at |-> << sorted[k], i >> ] ] \o scan(k + 1)
    IN  SearchLoop(scan(1), 1, toLowerCase(query), limit, << >>)

\* the texts a daily log of date d can hold: one entry; the same entry
\* twice; an entry, a bare number and an entry; a line cut short, an entry
\* without messages and an entry
SearchTexts(d) ==
    LET entry(cs) == JSONstringify([ ts |-> Timestamp(d), user_id |-> << "u" >>,
                                     messages |-> [ i \in DOMAIN cs |->
                                         [ role |-> << "user" >>, content |-> cs[i] ] ] ])
                     \o << "\n" >>
    IN  { entry(<< << "A", "b" >> >>),
          entry(<< << "c" >>, << "a", "B" >> >>) \o entry(<< << "c" >>, << "a", "B" >> >>),
          entry(<< << "b" >> >>) \o << "7", "\n" >> \o entry(<< << "a", "b" >> >>),
          << "{", "\n" >> \o entry(<< >>) \o entry(<< << "a" >> >>) }

\* a call searchLogs(logDir, query, dateFrom, dateTo, limit); 5 is the
\* default limit, and a directory without files may not exist
SearchLogs ==
    /\ ~searchCall.called
    /\ \E query \in { << "a", "B" >>, << "B" >>, << "z" >>, << >> },
          dateFrom \in { << >>, << D08 >>, << D09 >> },
          dateTo \in { << >>, << D07 >>, << D08 >> },
          limit \in 0..MaxLimit \cup { 5 },
          dirExists \in { TRUE } \cup
                        { e \in { FALSE } : \A d \in FileDates : ~logFiles[d].exists } :
          searchCall' = [ called |-> TRUE, query |-> query, dateFrom |-> dateFrom,
                          dateTo |-> dateTo, limit |-> limit,
                          returned |-> searchLogs(dirExists, logFiles, query,
                                                  dateFrom, dateTo, limit) ]
    /\ UNCHANGED << cmdVars, logVars, markVars, chunkVars, idVars, uidVars, captureVars, parseVars, restVars >>

SearchInit ==
    /\ \E f7 \in { << >> } \cup SearchTexts(D07), f8 \in { << >> } \cup SearchTexts(D08),
          f9 \in { << >> } \cup SearchTexts(D09) :
          logFiles = [ d \in FileDates |->
                         LET x == IF d = D07 THEN f7 ELSE IF d = D08 THEN f8
                                  ELSE IF d = D09 THEN f9 ELSE << >>
                         IN  [ exists |-> x # << >>, content |-> x ] ]
    /\ appended = [ d \in FileDates |-> << >> ]
    /\ tampered = { }
    /\ lastRead = [ called |-> FALSE ]
    /\ writes = 0
    /\ searchCall = [ called |-> FALSE ]
    /\ CmdUnused
    /\ MarkUnused
    /\ ChunkUnused
    /\ IdUnused
    /\ UidUnused
    /\ CaptureUnused
    /\ ParseUnused
    /\ RestUnused

SearchNext ==
    \/ SearchLogs

SearchSpec == SearchInit /\ [][SearchNext]_vars

\* content holds query, letters compared without regard to case
HoldsIgnoringCase(content, query) ==
    \E i \in 0..(Len(content) - Len(query)) :
        \A j \in DOMAIN query :
            \/ content[i + j] = query[j]
            \/ { content[i + j], query[j] } \in { { "a", "A" }, { "b", "B" } }

\* the matching entries of a call: the places << d, i >> of the lines of the
\* files in the inclusive range that parse to an entry with a message
\* holding the query; i counts the parsing lines of the file
Matching ==
    { at \in FileDates \X (1..4) :
        LET d == at[1]
            f == logFiles[d]
            ls == split(f.content, "\n")
            good == ParsingLines(f.content)
        IN  /\ f.exists
            /\ searchCall.dateFrom # << >> => ~StrLess(d, searchCall.dateFrom[1])
            /\ searchCall.dateTo # << >> => ~StrLess(searchCall.dateTo[1], d)
            /\ \E l \in good :
                  /\ Cardinality({ k \in good : k <= l }) = at[2]
                  /\ LET v == JSONparse(trim(ls[l])).value
                     IN  /\ "messages" \in DOMAIN v
                         /\ \E m \in DOMAIN v.messages :
                               HoldsIgnoringCase(v.messages[m].content, searchCall.query) }

\* the results are min(limit, M) of the matching entries, each once
SearchExact ==
    LET res == searchCall.returned.results
        M == Cardinality(Matching)
    IN  /\ searchCall.returned.ok
        /\ Len(res) = IF searchCall.limit < M THEN searchCall.limit ELSE M
        /\ \A k \in DOMAIN res : res[k].at \in Matching
        /\ \A k, l \in DOMAIN res : k # l => res[k].at # res[l].at

\* C26: for every log directory, query, date bounds and limit >= 0,
\* searchLogs returns exactly min(limit, M) results, M being the number of
\* entries with a message holding the query case-insensitively in the files
\* whose filename date lies in the inclusive range (a bound applies only when
\* given); no result comes from a file outside the range and no entry
\* appears twice.
C26_SearchReturnsMinLimitMatches ==
    searchCall.called => SearchExact

----------------------------------------------------------------------------
(* parseSleepAnalysis on its own.  A response is a sequence of pieces: the *)
(* piece "fence" for three backticks, the word json, white space, and JSON *)
(* texts that the function hands to JSON.parse without looking into them.  *)
(* A JSON value is                                                         *)
(* [ type, ... ]: null, number, string (text), array (items), object       *)
(* (fields), and undefined for what property access gives when there is    *)
(* nothing                                                                 *)

\* JSON.parse(text): white space around one JSON text is allowed; the value
\* of each JSON text of the model, a SyntaxError for anything else
JSONvalue(text) ==
    LET t == trim(text)
        str(s) == [ type |-> "string", text |-> s ]
        arr(xs) == [ type |-> "array", items |-> xs ]
        num == [ type |-> "number" ]
        null == [ type |-> "null" ]
        good(v) == [ ok |-> TRUE, value |-> v ]
    IN  IF Len(t) # 1 THEN [ ok |-> FALSE ]
        ELSE CASE t[1] = "null" -> good(null)
               [] t[1] = "5" -> good(num)
               [] t[1] = "\"s\"" -> good(str("s"))
               [] t[1] = "[]" -> good(arr(<< >>))
               [] t[1] = "{}" -> good([ type |-> "object", fields |-> << >> ])
               [] t[1] = "{full}" ->
                    good([ type |-> "object", fields |->
                        [ hot_facts |-> arr(<< str("f1"), str("f2") >>),
                          patterns |-> arr(<< str("p") >>),
                          reflections |-> arr(<< str("r") >>),
                          consolidations |-> arr(<< [ type |-> "object", fields |->
                              [ merge_ids |-> arr(<< str("id1"), str("id2") >>),
                                into |-> str("merged") ] ] >>),
                          digest |-> str("summary") ] ])
               [] t[1] = "{wrong types}" ->
                    good([ type |-> "object", fields |->
                        [ hot_facts |-> str("x"),
                          patterns |-> null,
                          consolidations |-> arr(<< [ type |-> "object", fields |->
                              [ merge_ids |-> str("not-array"), into |-> num ] ],
                              num, arr(<< >>) >>),
                          digest |-> num ] ])
               [] t[1] = "{consolidations:[null]}" ->
                    good([ type |-> "object", fields |->
                        [ consolidations |-> arr(<< null >>), digest |-> str("d") ] ])
               [] OTHER -> [ ok |-> FALSE ]

\* if cleaned starts with the fence: the fence, an optional "json" and an
\* optional newline are cut from the start, then an optional newline and the
\* fence from the end
StripFences(cleaned) ==
    IF cleaned # << >> /\ cleaned[1] = "fence"
    THEN LET a == Tail(cleaned)
             b == IF a # << >> /\ a[1] = "json" THEN Tail(a) ELSE a
             c == IF b # << >> /\ b[1] = "\n" THEN Tail(b) ELSE b
             n == Len(c)
         IN  IF n >= 1 /\ c[n] = "fence"
             THEN IF n >= 2 /\ c[n - 1] = "\n" THEN SubSeq(c, 1, n - 2)
                  ELSE SubSeq(c, 1, n - 1)
             ELSE c
    ELSE cleaned

\* parsed.name, c.name: undefined on a value without that property
Property(v, name) ==
    IF v.type = "object" /\ name \in DOMAIN v.fields THEN v.fields[name]
    ELSE [ type |-> "undefined" ]

\* parseSleepAnalysis(response): the SleepAnalysis, the SyntaxError of
\* JSON.parse, or the TypeError of a property read on null
parseSleepAnalysis(text) ==
    LET parsed == JSONvalue(StripFences(trim(text)))
    IN  IF ~parsed.ok THEN [ ok |-> FALSE, error |-> "SyntaxError" ]
        ELSE IF parsed.value.type = "null" THEN [ ok |-> FALSE, error |-> "TypeError" ]
        ELSE LET array(name) ==
                     IF Property(parsed.value, name).type = "array"
                     THEN Property(parsed.value, name).items ELSE << >>
                 cs == array("consolidations")
             IN  IF \E i \in DOMAIN cs : cs[i].type = "null"
                 THEN [ ok |-> FALSE, error |-> "TypeError" ]
                 ELSE [ ok |-> TRUE, value |->
                        [ hot_facts |-> array("hot_facts"),
                          patterns |-> array("patterns"),
                          reflections |-> array("reflections"),
                          consolidations |->
                              [ i \in DOMAIN cs |->
                                  [ merge_ids |->
                                        IF Property(cs[i], "merge_ids").type = "array"
                                        THEN Property(cs[i], "merge_ids").items ELSE << >>,
                                    into |->
                                        IF Property(cs[i], "into").type = "string"
                                        THEN Property(cs[i], "into").text ELSE "" ] ],
                          digest |-> IF Property(parsed.value, "digest").type = "string"
                                     THEN Property(parsed.value, "digest").text ELSE "" ] ]

\* answers of the LLM: a JSON text or other text, bare, in white space, in a
\* fence with or without the word json and the newlines, with the fence only
\* opened or only closed, with another word after the fence
Responses ==
    LET bodies == { "null", "5", "\"s\"", "[]", "{}", "{full}", "{wrong types}",
                    "{consolidations:[null]}", "not json" }
    IN  UNION { { << b >>,
                  << " ", b, "\n" >>,
                  << "fence", "json", "\n", b, "\n", "fence" >>,
                  << "\n", "fence", "\n", b, "fence", " " >>,
                  << "fence", "json", b >>,
                  << "fence", "json", "\n", b, "\n", "fence", "\n", "fence" >>,
                  << b, "\n", "fence" >>,
                  << "fence", "js", "\n", b, "\n", "fence" >> } : b \in bodies }
        \cup { << >>, << "fence" >> }

\* a call parseSleepAnalysis(response)
ParseSleepAnalysis ==
    /\ ~analysis.called
    /\ analysis' = [ called |-> TRUE, returned |-> parseSleepAnalysis(response) ]
    /\ UNCHANGED << response, cmdVars, logVars, markVars, chunkVars, idVars, uidVars,
                    captureVars, searchCall, restVars >>

ParseInit ==
    /\ response \in Responses
    /\ analysis = [ called |-> FALSE ]
    /\ CmdUnused
    /\ LogUnused
    /\ MarkUnused
    /\ ChunkUnused
    /\ IdUnused
    /\ UidUnused
    /\ CaptureUnused
    /\ SearchUnused
    /\ RestUnused

ParseNext ==
    \/ ParseSleepAnalysis

ParseSpec == ParseInit /\ [][ParseNext]_vars

\* C27: parseSleepAnalysis raises only on text that is not valid JSON after
\* fence stripping: for every valid JSON value, null and non-objects
\* included, it returns a SleepAnalysis in which each missing or wrongly
\* typed field, also of a consolidation element, has its empty default.
C27_RaisesOnlyOnInvalidJson ==
    analysis.called =>
        LET parsed == JSONvalue(StripFences(trim(response)))
            out == analysis.returned
            isArray(v, name) == /\ v.type = "object"
                                /\ name \in DOMAIN v.fields
                                /\ v.fields[name].type = "array"
            isString(v, name) == /\ v.type = "object"
                                 /\ name \in DOMAIN v.fields
                                 /\ v.fields[name].type = "string"
        IN  /\ out.ok <=> parsed.ok
            /\ out.ok =>
                  /\ \A name \in { "hot_facts", "patterns", "reflections" } :
                        ~isArray(parsed.value, name) => out.value[name] = << >>
                  /\ ~isArray(parsed.value, "consolidations") =>
                        out.value.consolidations = << >>
                  /\ ~isString(parsed.value, "digest") => out.value.digest = ""
                  /\ isArray(parsed.value, "consolidations") =>
                        LET cs == parsed.value.fields.consolidations.items
                        IN  /\ Len(out.value.consolidations) = Len(cs)
                            /\ \A i \in DOMAIN cs :
                                  /\ ~isArray(cs[i], "merge_ids") =>
                                        out.value.consolidations[i].merge_ids = << >>
                                  /\ ~isString(cs[i], "into") =>
                                        out.value.consolidations[i].into = ""

----------------------------------------------------------------------------
(* The digest and the add call of the command (Spec) *)

\* markProcessed(d) at position k of the trace comes after a completed
\* saveDigest for d in this invocation, and the digest file is there
DigestBefore(k, d) ==
    /\ \E j \in 1..(k - 1) : trace[j] = Ev("saveDigest", d, "ok")
    /\ d \in digests

\* C28 (as stated): when digestEnabled is set, every date with at least one
\* log entry that a run marks processed has had its digest file written by
\* that run before it was marked.
C28_DigestBeforeMark ==
    digestEnabled =>
        \A k \in MarkPositions :
            Len(EntriesOf(trace[k].date)) > 0 => DigestBefore(k, trace[k].date)

\* C28 (amended): when digestEnabled is set, every date with at least one
\* user or assistant message that a run marks processed has had its digest
\* file written by that run before it was marked.
C28_DigestBeforeMarkOfMessages ==
    digestEnabled =>
        \A k \in MarkPositions :
            HasUserOrAssistant(trace[k].date) => DigestBefore(k, trace[k].date)

C28_Witness ==
    /\ digestEnabled
    /\ pc = "complete"
    /\ \E d \in MarkedInRun : HasUserOrAssistant(d) /\ d \in digests
    /\ \E d \in Range(unprocessed) : Did("saveDigest", d, "throw")

\* the user and assistant messages of the day's file, in log order
DayMessages(d) ==
    LET roles == Concat([ i \in 1..Len(EntriesOf(d)) |-> EntriesOf(d)[i].messages ])
    IN  SelectSeq(roles, LAMBDA r : r # "tool")

\* the add calls this invocation has made for date d
AddCalls(d) == { i \in DOMAIN trace :
                   trace[i].op = "add" /\ trace[i].res = "call" /\ trace[i].date = d }

\* the day's entries have been read in this invocation
Loaded(d) == Did("readDailyLog", d, "ok")

----------------------------------------------------------------------------
(* Live capture beside the command: the agent_end hook of the gateway      *)
(* builds an entry and appends it while mem0-sleep runs and midnight passes *)

MaxCaptures == 2

\* buildLogEntry: ts is new Date().toISOString() at the time of the call
BuildLogEntry ==
    /\ stamped = << >>
    /\ captures < MaxCaptures
    /\ stamped' = << Timestamp(today) >>
    /\ captures' = captures + 1
    /\ UNCHANGED << late, cmdVars, logVars, markVars, chunkVars, idVars, uidVars,
                    captureVars, searchCall, parseVars, hookVars, overlap, mem0 >>

\* appendToLog(logDir, logEntry): one more line in the file of the date of
\* entry.ts, created when it is not there
AppendStamped ==
    /\ stamped # << >>
    /\ LET date == DatePart(stamped[1])
       IN  /\ files' = [ files EXCEPT ![date] =
                           File(files[date].lines \o << Line(EntryUser) >>) ]
           /\ late' = IF date \in Range(processed) \/ Did("readDailyLog", date, "ok")
                      THEN late \cup { date } ELSE late
    /\ stamped' = << >>
    /\ UNCHANGED << captures, processed, digests, store, today, digestEnabled, pc,
                    RunFrame, idx, entries, existingMemories, trace,
                    logVars, markVars, chunkVars, idVars, uidVars,
                    captureVars, searchCall, parseVars, hookVars, overlap, mem0 >>

LiveInit ==
    /\ Init
    /\ files[D07] = Absent

LiveNext ==
    \/ Next
    \/ BuildLogEntry
    \/ AppendStamped

LiveSpec == LiveInit /\ [][LiveNext]_vars

\* C31: no captured entry is lost to maintenance: no entry is appended to
\* the daily log of a date after a run has read that log for processing or
\* marked that date processed.
C31_NoAppendAfterReadOrMark == late = { }

----------------------------------------------------------------------------
(* The before_agent_start and agent_end hooks of concurrent sessions: an   *)
(* agent_end invocation runs up to its await of provider.add, and goes on  *)
(* when the store has answered; other invocations run in between           *)

Sessions == { "s1", "s2" }

\* the loop of the agent_end hook over recentMessages: user and assistant
\* messages with text, without the memory marker
RECURSIVE formatMessages(_)
formatMessages(messages) ==
    IF messages = << >> THEN << >>
    ELSE LET msg == Head(messages)
             rest == formatMessages(Tail(messages))
         IN  IF msg.kind # "object" THEN rest
             ELSE IF msg.role \notin { "user", "assistant" } THEN rest
             ELSE LET textContent ==
                          IF msg.content.kind = "string" THEN msg.content.text
                          ELSE IF msg.content.kind = "array"
                          THEN BlockText(SelectSeq(msg.content.blocks,
                                   LAMBDA b : b.type = "text" /\ b.text.kind = "string"),
                                   << >>)
                          ELSE << >>
                  IN  IF textContent = << >> THEN rest
                      ELSE IF includes(textContent,
                                       << "<", "r", "e", "l", "e", "v", "a", "n", "t", "-", "m", "e", "m", "o", "r", "i", "e", "s", ">" >>)
                      THEN rest
                      ELSE << [ role |-> msg.role, content |-> textContent ] >> \o rest

\* before_agent_start of session s: a short prompt returns at once, else
\* the session key is tracked (the recall that follows changes nothing here)
BeforeAgentStart(s) ==
    /\ \E short \in BOOLEAN :
          currentSessionId' = IF short THEN currentSessionId ELSE << s >>
    /\ UNCHANGED << turns, cmdVars, logVars, markVars, chunkVars, idVars, uidVars,
                    captureVars, searchCall, parseVars, liveVars, overlap, mem0 >>

\* agent_end of session s up to await provider.add(formattedMessages, addOpts)
AgentEndStart(s) ==
    /\ turns[s].pc = "idle"
    /\ \E success, skip \in BOOLEAN :
          IF ~success \/ Len(rawMessages) = 0
          THEN /\ turns' = [ turns EXCEPT ![s].pc = "done", ![s].outcome = "returned" ]
               /\ UNCHANGED currentSessionId
          ELSE /\ currentSessionId' = << s >>
               /\ IF skip
                  THEN turns' = [ turns EXCEPT ![s].pc = "done", ![s].outcome = "skipped" ]
                  ELSE LET recentMessages ==
                               IF Len(rawMessages) <= 10 THEN rawMessages
                               ELSE SubSeq(rawMessages, Len(rawMessages) - 9, Len(rawMessages))
                           formatted == formatMessages(recentMessages)
                           \* if (formattedMessages.length === 0) return
                           goes == IF Len(formatted) = 0 THEN "done" ELSE "add"
                       IN  turns' = [ turns EXCEPT
                              ![s].pc = goes,
                              ![s].outcome = IF Len(formatted) = 0 THEN "nothing" ELSE "none",
                              ![s].run_id = IF goes = "add" THEN currentSessionId' ELSE << >> ]
    /\ UNCHANGED << cmdVars, logVars, markVars, chunkVars, idVars, uidVars,
                    captureVars, searchCall, parseVars, liveVars, overlap, mem0 >>

\* provider.add has resolved or thrown (caught); then the sleep-mode block:
\* buildLogEntry(event.messages, ..., currentSessionId || "unknown") and
\* appendToLog when it returned an entry
AgentEndResume(s) ==
    /\ turns[s].pc = "add"
    /\ \E ok \in BOOLEAN :
          LET logEntry == buildLogEntry(rawMessages, << "u" >>, << "c" >>,
                              IF currentSessionId = << >> THEN "unknown"
                              ELSE currentSessionId[1],
                              Timestamp(today))
          IN  turns' = [ turns EXCEPT
                 ![s].pc = "done",
                 ![s].outcome = IF ok THEN "captured" ELSE "failed",
                 ![s].logged = IF logEntry # << >> THEN Append(@, logEntry[1]) ELSE @ ]
    /\ UNCHANGED << currentSessionId, cmdVars, logVars, markVars, chunkVars, idVars,
                    uidVars, captureVars, searchCall, parseVars, liveVars, overlap, mem0 >>

\* event.messages of the turns: short lists of a user text, a tool result, a
\* system prompt, a user text holding the marker and a null, and a user
\* message followed by ten tool results
HookMessages ==
    LET shapes == { m \in RawShapes :
                      \/ m.kind = "null"
                      \/ m.role = "system"
                      \/ m.role = "tool" /\ m.name.kind = "string"
                      \/ m.role = "user" /\ m.name.kind = "other" /\ m.content.kind = "string"
                                         /\ Len(m.content.text) \in { 2, 20 } }
        user == CHOOSE m \in shapes : m.role = "user" /\ Len(m.content.text) = 2
        tool == CHOOSE m \in shapes : m.role = "tool"
    IN  UNION { [ 1..n -> shapes ] : n \in 0..MaxRaw }
        \cup { [ i \in 1..11 |-> IF i = 1 THEN user ELSE tool ] }

HookInit ==
    /\ rawMessages \in HookMessages
    /\ cleanCall = [ called |-> FALSE ]
    /\ captureLog = [ events |-> 0, entries |-> << >> ]
    /\ currentSessionId = << >>
    /\ turns = [ s \in Sessions |->
                   [ pc |-> "idle", outcome |-> "none", run_id |-> << >>, logged |-> << >> ] ]
    /\ CmdUnused
    /\ LogUnused
    /\ MarkUnused
    /\ ChunkUnused
    /\ IdUnused
    /\ UidUnused
    /\ SearchUnused
    /\ ParseUnused
    /\ LiveUnused
    /\ OverlapUnused
    /\ ProviderUnused

HookNext ==
    \E s \in Sessions :
        \/ BeforeAgentStart(s)
        \/ AgentEndStart(s)
        \/ AgentEndResume(s)

HookSpec == HookInit /\ [][HookNext]_vars

\* C32: under any interleaving of agent_end and before_agent_start
\* invocations of different sessions, the session_id written into a
\* LogEntry and the run_id passed to the store add of the same turn equal
\* the session key of the agent_end invocation that produced them.
C32_SessionIdIsOwn ==
    \A s \in Sessions :
        /\ turns[s].run_id \in { << >>, << s >> }
        /\ \A i \in DOMAIN turns[s].logged : turns[s].logged[i].session_id = s

\* C36: with auto-capture and sleep mode enabled, every successful
\* agent_end turn that is not skipped as a group chat and whose messages
\* leave at least one message after cleanMessages appends exactly one entry
\* to the daily log, whether the store capture of that turn succeeds,
\* throws, or has nothing to capture.
C36_OneEntryPerTurn ==
    \A s \in Sessions :
        (/\ turns[s].pc = "done"
         /\ turns[s].outcome \in { "captured", "failed", "nothing" }
         /\ Len(cleanMessages(rawMessages, 500)) > 0) =>
            Len(turns[s].logged) = 1

----------------------------------------------------------------------------
(* Two mem0-sleep processes on the same log directory, each without --date *)
(* and without --dry-run; they share the files, .processed and the store   *)

Processes == { 1, 2 }

\* the date process r is handling
DateOf(r) == overlap[r].unprocessed[overlap[r].idx]

\* process r starts, or has ended and is started again:
\* findUnprocessedLogs(logDir), then the getAll before the loop
InvokeOf(r) ==
    /\ overlap[r].pc \in { "idle", "caughtUp", "complete", "crashed" }
    /\ \E l \in DirListings :
          LET cands == findUnprocessedLogs(l, getProcessedDates(processed, TRUE), today)
          IN  overlap' = [ overlap EXCEPT
                 ![r].pc = IF cands = << >> THEN "caughtUp" ELSE "load",
                 ![r].unprocessed = cands,
                 ![r].idx = 1,
                 ![r].added = << >> ]
    /\ UNCHANGED << cmdVars, logVars, markVars, chunkVars, idVars, uidVars,
                    captureVars, searchCall, parseVars, liveVars, hookVars, mem0 >>

\* readDailyLog(log.path), then markProcessed for a day without messages or
\* the call of provider.add; a throw of the read is not caught
LoadDayOf(r) ==
    /\ overlap[r].pc = "load"
    /\ LET es == readDailyLog(LogFile(DateOf(r)))
       IN  \/ overlap' = [ overlap EXCEPT
                 ![r].pc = AfterLoad(es),
                 ![r].added = IF AfterLoad(es) = "add" THEN Append(@, DateOf(r)) ELSE @ ]
           \/ /\ LogFile(DateOf(r)).exists
              /\ overlap' = [ overlap EXCEPT ![r].pc = "crashed", ![r].failed = TRUE ]
    /\ UNCHANGED << cmdVars, logVars, markVars, chunkVars, idVars, uidVars,
                    captureVars, searchCall, parseVars, liveVars, hookVars, mem0 >>

\* provider.add returns (the digest is written) or throws into the catch
AddReturnOf(r) ==
    /\ overlap[r].pc = "add"
    /\ \E ok \in BOOLEAN :
          IF ok
          THEN /\ store' = store \cup { DateOf(r) }
               /\ overlap' = [ overlap EXCEPT ![r].pc = "mark" ]
          ELSE /\ store' = store
               /\ overlap' = [ overlap EXCEPT
                      ![r].pc = IF overlap[r].idx < Len(overlap[r].unprocessed)
                                THEN "load" ELSE "complete",
                      ![r].idx = IF overlap[r].idx < Len(overlap[r].unprocessed)
                                 THEN @ + 1 ELSE @,
                      ![r].failed = TRUE ]
    /\ UNCHANGED << files, processed, digests, today, digestEnabled, pc,
                    RunFrame, idx, entries, existingMemories, trace,
                    logVars, markVars, chunkVars, idVars, uidVars,
                    captureVars, searchCall, parseVars, liveVars, hookVars, mem0 >>

\* markProcessed(logDir, log.date); a throw is not caught
MarkProcessedOf(r) ==
    /\ overlap[r].pc = "mark"
    /\ \/ /\ processed' = markProcessed(processed, DateOf(r))
          /\ overlap' = [ overlap EXCEPT
                 ![r].pc = IF overlap[r].idx < Len(overlap[r].unprocessed)
                           THEN "load" ELSE "complete",
                 ![r].idx = IF overlap[r].idx < Len(overlap[r].unprocessed)
                            THEN @ + 1 ELSE @ ]
       \/ /\ processed' = processed
          /\ overlap' = [ overlap EXCEPT ![r].pc = "crashed", ![r].failed = TRUE ]
    /\ UNCHANGED << files, digests, store, today, digestEnabled, pc,
                    RunFrame, idx, entries, existingMemories, trace,
                    logVars, markVars, chunkVars, idVars, uidVars,
                    captureVars, searchCall, parseVars, liveVars, hookVars, mem0 >>

OverlapInit ==
    /\ files \in { f \in [ FileDates -> FileContents ] :
                     /\ f[D08] = File(<< Garbage, Line(EntryUser), Blank >>)
                     /\ f[D09] = File(<< Line(EntryTool) >>)
                     /\ f[D10] = Absent }
    /\ processed = << >>
    /\ digests = { }
    /\ store = { }
    /\ today = D09
    /\ digestEnabled = FALSE
    /\ runs = 0
    /\ pc = "idle"
    /\ opts = [ date |-> NoDate, dryRun |-> FALSE ]
    /\ unprocessed = << >>
    /\ idx = 1
    /\ entries = << >>
    /\ existingMemories = { }
    /\ trace = << >>
    /\ start = [ processed |-> { }, digests |-> { }, store |-> { } ]
    /\ processedReadOk = TRUE
    /\ resumeDate = << >>
    /\ overlap = [ r \in Processes |->
                     [ pc |-> "idle", unprocessed |-> << >>, idx |-> 1, added |-> << >>,
                       failed |-> FALSE ] ]
    /\ LogUnused
    /\ MarkUnused
    /\ ChunkUnused
    /\ IdUnused
    /\ UidUnused
    /\ CaptureUnused
    /\ SearchUnused
    /\ ParseUnused
    /\ LiveUnused
    /\ HookUnused
    /\ ProviderUnused

OverlapNext ==
    \E r \in Processes :
        \/ InvokeOf(r)
        \/ LoadDayOf(r)
        \/ AddReturnOf(r)
        \/ MarkProcessedOf(r)

OverlapSpec == OverlapInit /\ [][OverlapNext]_vars

\* C33: when two maintenance runs on the same log directory overlap in
\* time, no date has its messages submitted to the store's add by both.
C33_NoDateAddedByBoth ==
    \A d \in Range(overlap[1].added) : d \notin Range(overlap[2].added)

\* the runs of one scheduler follow one another, midnight passes, and a run
\* that can take a step takes one
CatchUpNext ==
    \/ InvokeOf(1)
    \/ LoadDayOf(1)
    \/ AddReturnOf(1)
    \/ MarkProcessedOf(1)
    \/ Tick

CatchUpSpec ==
    /\ OverlapInit
    /\ [][CatchUpNext]_vars
    /\ WF_vars(InvokeOf(1))
    /\ WF_vars(LoadDayOf(1))
    /\ WF_vars(AddReturnOf(1))
    /\ WF_vars(MarkProcessedOf(1))

\* a step in which a store or file operation of a run throws
OperationFails ==
    \E r \in Processes :
        \/ overlap[r].pc # "crashed" /\ overlap'[r].pc = "crashed"
        \/ overlap[r].pc = "add" /\ overlap'[r].pc # "mark"

\* every date before today that has a daily log file is in the processed
\* set, and findUnprocessedLogs returns none of them
CaughtUp ==
    \A d \in FileDates :
        (files[d].exists /\ StrLess(d, today)) =>
            /\ d \in Range(processed)
            /\ \A l \in DirListings :
                  d \notin Range(findUnprocessedLogs(l, getProcessedDates(processed, TRUE),
                                                     today))

DigestFailedAfterAdd(d) ==
    /\ Did("add", d, "ok")
    /\ Did("saveDigest", d, "throw")

\* d was promoted to the store by an earlier invocation
AddedBefore(d) == d \in start.store

\* the invocation has gone through all its candidates and every candidate
\* that an earlier invocation promoted without marking it, and that holds a
\* user or assistant message, has been submitted to add again
ResubmitsUnmarked ==
    pc = "complete" =>
        \A d \in Range(unprocessed) :
            (AddedBefore(d) /\ d \notin start.processed /\ HasUserOrAssistant(d)) =>
                AddCalls(d) # { }

\* an add of this invocation that repeats an earlier one is for a date that
\* was not marked processed when the invocation began
RepeatsOnlyUnmarked ==
    \A d \in FileDates :
        (AddCalls(d) # { } /\ AddedBefore(d)) => d \notin start.processed

MaxCallers == 2

Callers == 1..MaxCallers

Operations == { "add", "search", "get", "getAll", "delete" }

\* faulty variant: no look at this.initPromise, every call before the
\* client is set starts _init
ensureClientEveryCall(p) ==
    IF p.client THEN [ awaits |-> 0, init |-> FALSE ]
    ELSE [ awaits |-> Len(p.promises) + 1, init |-> TRUE ]

\* ensureClient(): the promise the caller awaits (0: none, the client is
\* set) and whether _init() is called to make it
ensureClient(p) ==
    IF p.client THEN [ awaits |-> 0, init |-> FALSE ]
    ELSE IF p.initPromise # 0 THEN [ awaits |-> p.initPromise, init |-> FALSE ]
    ELSE [ awaits |-> Len(p.promises) + 1, init |-> TRUE ]

\* caller c calls operation op: the synchronous part of ensureClient, and of
\* _init up to its await import(...), then the caller awaits
OperationCall(c, op) ==
    /\ mem0.callers[c].pc = "idle"
    /\ LET r == ensureClient(mem0)
       IN  mem0' = [ mem0 EXCEPT
              !.promises = IF r.init THEN Append(@, "pending") ELSE @,
              !.initPromise = IF r.init THEN r.awaits ELSE @,
              !.callers[c] = [ pc |-> "awaiting", op |-> op, awaits |-> r.awaits,
                               sawClient |-> FALSE ] ]
    /\ UNCHANGED << cmdVars, logVars, markVars, chunkVars, idVars, uidVars,
                    captureVars, searchCall, parseVars, liveVars, hookVars, overlap >>

\* the import of _init number i settles: the module is missing, or the
\* constructor throws, or this.client is set to the new client
InitSettles(i) ==
    /\ mem0.promises[i] = "pending"
    /\ \E outcome \in { "importFails", "constructorThrows", "constructed" } :
          mem0' = [ mem0 EXCEPT
              !.promises[i] = IF outcome = "constructed" THEN "resolved" ELSE "rejected",
              !.client = IF outcome = "constructed" THEN TRUE ELSE @,
              !.constructed = IF outcome = "constructed" THEN @ + 1 ELSE @ ]
    /\ UNCHANGED << cmdVars, logVars, markVars, chunkVars, idVars, uidVars,
                    captureVars, searchCall, parseVars, liveVars, hookVars, overlap >>

\* caller c goes on after await this.ensureClient(): the rejection is thrown
\* to the operation's caller, or the operation calls this.client.<op>(...)
OperationResumes(c) ==
    /\ mem0.callers[c].pc = "awaiting"
    /\ LET a == mem0.callers[c].awaits
       IN  /\ a # 0 => mem0.promises[a] # "pending"
           /\ mem0' = [ mem0 EXCEPT
                 !.callers[c].pc = IF a # 0 /\ mem0.promises[a] = "rejected"
                                   THEN "threw" ELSE "used",
                 !.callers[c].sawClient = mem0.client ]
    /\ UNCHANGED << cmdVars, logVars, markVars, chunkVars, idVars, uidVars,
                    captureVars, searchCall, parseVars, liveVars, hookVars, overlap >>

ProviderInit ==
    /\ mem0 = [ client |-> FALSE, initPromise |-> 0, promises |-> << >>,
                    constructed |-> 0,
                    callers |-> [ c \in Callers |->
                                    [ pc |-> "idle", op |-> "none", awaits |-> 0,
                                      sawClient |-> FALSE ] ] ]
    /\ CmdUnused
    /\ LogUnused
    /\ MarkUnused
    /\ ChunkUnused
    /\ IdUnused
    /\ UidUnused
    /\ CaptureUnused
    /\ SearchUnused
    /\ ParseUnused
    /\ LiveUnused
    /\ HookUnused
    /\ OverlapUnused

ProviderNext ==
    \/ \E c \in Callers, op \in Operations : OperationCall(c, op)
    \/ \E i \in DOMAIN mem0.promises : InitSettles(i)
    \/ \E c \in Callers : OperationResumes(c)

ProviderSpec == ProviderInit /\ [][ProviderNext]_vars

\* C38: under any interleaving of concurrent first calls to a provider's
\* operations, the underlying Mem0 client is constructed at most once and
\* no operation uses the client before its construction has completed.
C38_ClientConstructedOnce ==
    /\ mem0.constructed <= 1
    /\ \A c \in Callers : mem0.callers[c].pc = "used" => mem0.callers[c].sawClient

C38_Witness ==
    /\ mem0.constructed = 1
    /\ \A c \in Callers : mem0.callers[c].pc = "used" /\ mem0.callers[c].awaits = 1
    /\ \E c, d \in Callers : mem0.callers[c].op # mem0.callers[d].op

\* the entries of the map whose alias list the last call changed, the
\* entries it pushed included
ChangedEntries ==
    { i \in DOMAIN idMap :
        i \notin DOMAIN idCall.before \/ idMap[i].aliases # idCall.before[i].aliases }

\* the entry that held the alias before the last call, and the entry of the
\* call's canonical ID after it
OwnerAndTarget ==
    { FirstIndex(Holders(idCall.before, idCall.alias)),
      FirstIndex(EntriesOfId(idMap, idCall.canonical)) }

\* C37: after any sequence of addAliasToIdentityMap calls starting from the
\* empty map, no two entries of the map share a canonical ID, no entry is
\* ever removed (an entry whose last alias is moved away stays with an empty
\* alias list), and each call changes the alias lists of at most two
\* entries: the previous owner of the alias and the target.
C37_EntriesKeptAndFramed ==
    ~idLoaded =>
        /\ \A i, j \in DOMAIN idMap : idMap[i].canonical = idMap[j].canonical => i = j
        /\ idCall.op = "add" =>
              /\ Len(idMap) >= Len(idCall.before)
              /\ \A i \in DOMAIN idCall.before :
                    idMap[i].canonical = idCall.before[i].canonical
              /\ ChangedEntries \subseteq OwnerAndTarget

C37_Witness ==
    /\ ~idLoaded
    /\ idCall.op = "add"
    /\ Len(idMap) = Len(idCall.before)
    /\ Cardinality(ChangedEntries) = 2
    /\ \E i \in ChangedEntries : idMap[i].aliases = << >>
    /\ \E i \in DOMAIN idMap \ ChangedEntries : idMap[i].aliases # << >>

====
